---- MODULE Spec2Model ----
(***************************************************************************)
(* Model of the transcript core of the video_editor package and of the     *)
(* programs around it:                                                     *)
(*   video_editor/models.py      WordTimestamp, TranscriptSegment,         *)
(*                               Transcript and their to_dict()            *)
(*   video_editor/segmenter.py   split_segments_by_max_words               *)
(*   video_editor/formatters.py  TranscriptFormatter                       *)
(*   video_editor/transcriber.py the segments Transcriber.transcribe       *)
(*                               builds from the engine's output           *)
(*   main.py                     the command line pipeline                 *)
(*   server.py                   the job table, the worker thread and the  *)
(*                               request handlers                          *)
(*                                                                         *)
(* Representation.                                                         *)
(*   str        a sequence of characters, <<"a", " ">>.  A character of   *)
(*              ASCII is a one-character string; a control character but   *)
(*              "\t", "\n", "\f", "\r" and every character above U+007F    *)
(*              is named by its code point in 4 to 6 hexadecimal digits,   *)
(*              "U+0008", "U+00A0", "U+3000", "U+1F600".                   *)
(*   float      the times of words and segments are integer numbers of     *)
(*              ticks of 1/TicksPerSecond s, TicksPerSecond a power of     *)
(*              two.  The argument of _seconds_to_srt_time is a float      *)
(*              given exactly, by its whole part and the binary digits of  *)
(*              its fraction; a number of ticks is such a float.           *)
(*   Optional   None or Some(v)                                            *)
(*   a call     Return(v) or Raise(exc, msg)                               *)
(***************************************************************************)
EXTENDS Integers, Sequences, FiniteSets, TLC

VARIABLES
    pc,            \* position of the run being modelled
    segments,      \* argument `segments` of split_segments_by_max_words
    max_words,     \* argument `max_words`
    split_out,     \* outcome of split_segments_by_max_words(segments, max_words)
    resplit_out,   \* outcome of splitting split_out's segments again
    transcript,    \* a Transcript handed to the formatter
    dict_out,      \* Transcript.to_dict() of transcript
    srt_out,       \* TranscriptFormatter.format_srt(transcript)
    seconds,       \* argument of _seconds_to_srt_time
    srt_time,      \* the fields and the text _seconds_to_srt_time produced
    heap,          \* the objects, by address
    obj_segments,  \* the argument `segments`: the address of a list
    obj_out,       \* outcome of the call: the address of the list returned
                   \* or the exception
    json_out,      \* TranscriptFormatter.format_json(transcript)
    json_parsed,   \* the value a JSON parser reads from json_out
    files,         \* the output files: path -> None (no file) or Some(text)
    handles,       \* the save_to_file calls that hold an open file object
    savers,        \* the save_to_file calls: position, arguments, locals
    jobs,          \* server.jobs: job id -> the job's dict, or no entry
    disk,          \* the files in the server's temp directories
    proc,          \* per job: position of its upload handler and worker
    handler,       \* the /status or /download handler on the event loop
    response,      \* the answer a handler sent in the last step, if any
    cli            \* a run of the command line pipeline (main.py)

coreVars == <<pc, segments, max_words, split_out, resplit_out,
              transcript, dict_out, srt_out, seconds, srt_time>>
objVars == <<heap, obj_segments, obj_out>>
jsonVars == <<json_out, json_parsed>>
saveVars == <<files, handles, savers>>
srvVars == <<jobs, disk, proc, handler, response>>
cliVars == <<cli>>
sysVars == <<saveVars, srvVars, cliVars>>

(* The variables added to the ones of the splitter and the formatter.      *)
extVars == <<objVars, jsonVars, sysVars>>

vars == <<coreVars, extVars>>

----------------------------------------------------------------------------
(* Bounds of the model.                                                    *)

MaxSegments == 2
MaxWordsPerSegment == 3
MaxTotalWords == 4
MaxWordsArg == 2
MaxHours == 100
MaxSavers == 2
MaxJobs == 1
OldLength == 64

(* Ticks per second of the time representation: 2^12.                      *)
TicksPerSecond == 2 ^ 12

----------------------------------------------------------------------------
(* Python values.                                                          *)

None == [some |-> FALSE]
Some(v) == [some |-> TRUE, val |-> v]

Return(v) == [kind |-> "return", value |-> v]
Raise(exc, msg) == [kind |-> "raise", exc |-> exc, msg |-> msg]
NotCalled == [kind |-> "none"]

(* The state of the parts of the program a specification leaves aside.     *)
ObjIdle ==
    /\ heap = <<>>
    /\ obj_segments = 0
    /\ obj_out = NotCalled

JsonIdle ==
    /\ json_out = NotCalled
    /\ json_parsed = NotCalled

SaveIdle ==
    /\ files = <<>>
    /\ handles = {}
    /\ savers = <<>>

ServerIdle ==
    /\ jobs = <<>>
    /\ disk = {}
    /\ proc = <<>>
    /\ handler = [kind |-> "idle"]
    /\ response = [req |-> "none"]

CliIdle == cli = [pc |-> "idle"]

SysIdle == SaveIdle /\ ServerIdle /\ CliIdle

ExtIdle == ObjIdle /\ JsonIdle /\ SysIdle

(* Truth value of an Optional[List]: None and the empty list are false.    *)
Truthy(opt) == opt.some /\ opt.val # <<>>

(* The whitespace above U+007F: two bytes each in UTF-8 below U+0800,      *)
(* three from there on.                                                    *)
TwoByteWhitespace == {"U+0085", "U+00A0"}
ThreeByteWhitespace ==
    {"U+1680", "U+2000", "U+2001", "U+2002", "U+2003", "U+2004", "U+2005",
     "U+2006", "U+2007", "U+2008", "U+2009", "U+200A", "U+2028", "U+2029",
     "U+202F", "U+205F", "U+3000"}

(* The characters str.strip() removes: those str.isspace() holds for.      *)
Whitespace ==
    {" ", "\t", "\n", "U+000B", "\f", "\r",
     "U+001C", "U+001D", "U+001E", "U+001F"}
    \cup TwoByteWhitespace \cup ThreeByteWhitespace

RECURSIVE lstrip(_)
lstrip(s) ==
    IF s = <<>> THEN s
    ELSE IF Head(s) \in Whitespace THEN lstrip(Tail(s)) ELSE s

RECURSIVE rstrip(_)
rstrip(s) ==
    IF s = <<>> THEN s
    ELSE IF s[Len(s)] \in Whitespace THEN rstrip(SubSeq(s, 1, Len(s) - 1)) ELSE s

(* str.strip(): remove leading and trailing whitespace.                    *)
strip(s) == rstrip(lstrip(s))

(* sep.join(parts)                                                         *)
RECURSIVE join(_, _)
join(sep, parts) ==
    IF parts = <<>> THEN <<>>
    ELSE IF Len(parts) = 1 THEN parts[1]
    ELSE parts[1] \o sep \o join(sep, Tail(parts))

(* Python slice xs[i:j] for 0 <= i, 0 <= j (0-based, end exclusive).       *)
Slice(xs, i, j) ==
    LET hi == IF j < Len(xs) THEN j ELSE Len(xs)
    IN  IF i >= hi THEN <<>> ELSE SubSeq(xs, i + 1, hi)

----------------------------------------------------------------------------
(* video_editor/models.py                                                  *)

WordTimestamp(start, end, word) ==
    [start |-> start, end |-> end, word |-> word]

TranscriptSegment(start, end, text, words) ==
    [start |-> start, end |-> end, text |-> text, words |-> words]

Transcript(segs, language) ==
    [segments |-> segs, language |-> language]

----------------------------------------------------------------------------
(* video_editor/segmenter.py                                               *)

ValueErrorMaxWords == "max_words must be greater than 0"
ValueErrorNoWords == "Word-level timestamps are required to split by max words."

(* if w.word.strip()                                                       *)
NonBlank(w) == strip(w.word) # <<>>

(* words = [w for w in segment.words if w.word.strip()]                    *)
RECURSIVE FilterWords(_)
FilterWords(words) ==
    IF words = <<>> THEN <<>>
    ELSE IF NonBlank(Head(words))
         THEN <<Head(words)>> \o FilterWords(Tail(words))
         ELSE FilterWords(Tail(words))

Range0_skip(n, step) ==
    [k \in 1..((n + step) \div (step + 1)) |-> (k - 1) * (step + 1)]

(* range(0, n, step) as the sequence of its values.                        *)
Range0(n, step) ==
    [k \in 1..((n + step - 1) \div step) |-> (k - 1) * step]

Chunk_wide(words, i, m) == Slice(words, i, i + m + 1)

(* chunk = words[i:i + max_words]                                          *)
Chunk(words, i, m) == Slice(words, i, i + m)

ChunkText_untrimmed(chunk) ==
    strip(join(<<" ">>, [k \in 1..Len(chunk) |-> chunk[k].word]))

(* text = " ".join(w.word.strip() for w in chunk).strip()                  *)
ChunkText(chunk) ==
    strip(join(<<" ">>, [k \in 1..Len(chunk) |-> strip(chunk[k].word)]))

ChunkSegment_firstend(chunk) ==
    TranscriptSegment(chunk[1].start, chunk[1].end,
                      ChunkText(chunk), Some(chunk))

(* The TranscriptSegment appended for one chunk.                           *)
ChunkSegment(chunk) ==
    TranscriptSegment(chunk[1].start, chunk[Len(chunk)].end,
                      ChunkText(chunk), Some(chunk))

(* The segments one pass of the inner loop appends for the filtered words. *)
ChunkSegments(words, m) ==
    LET starts == Range0(Len(words), m)
    IN  [k \in 1..Len(starts) |-> ChunkSegment(Chunk(words, starts[k], m))]

(* if not segment.words                                                    *)
MissingWords(segment) == ~Truthy(segment.words)

RECURSIVE SplitLoop_partial(_, _, _, _)
SplitLoop_partial(segs, m, idx, split_segments) ==
    IF idx > Len(segs) THEN Return(split_segments)
    ELSE IF MissingWords(segs[idx]) THEN Return(split_segments)
    ELSE LET words == FilterWords(segs[idx].words.val)
         IN  IF words = <<>>
             THEN SplitLoop_partial(segs, m, idx + 1, split_segments)
             ELSE SplitLoop_partial(segs, m, idx + 1,
                                    split_segments \o ChunkSegments(words, m))

(* The loop over the segments from index idx on, with the list built so    *)
(* far; a raise leaves the function at once and the list is lost.          *)
RECURSIVE SplitLoop(_, _, _, _)
SplitLoop(segs, m, idx, split_segments) ==
    IF idx > Len(segs) THEN Return(split_segments)
    ELSE IF MissingWords(segs[idx]) THEN Raise("ValueError", ValueErrorNoWords)
    ELSE LET words == FilterWords(segs[idx].words.val)
         IN  IF words = <<>>
             THEN SplitLoop(segs, m, idx + 1, split_segments)
             ELSE SplitLoop(segs, m, idx + 1,
                            split_segments \o ChunkSegments(words, m))

(* if max_words <= 0                                                       *)
BadMaxWords(m) == m <= 0

split_checks_late(segs, m) ==
    IF \E j \in 1..Len(segs) : MissingWords(segs[j])
    THEN Raise("ValueError", ValueErrorNoWords)
    ELSE IF BadMaxWords(m) THEN Raise("ValueError", ValueErrorMaxWords)
    ELSE SplitLoop(segs, m, 1, <<>>)

split_segments_by_max_words(segs, m) ==
    IF BadMaxWords(m) THEN Raise("ValueError", ValueErrorMaxWords)
    ELSE SplitLoop(segs, m, 1, <<>>)

----------------------------------------------------------------------------
(* video_editor/models.py: to_dict().  A dict is a function on its keys.   *)

WordTimestamp_to_dict(w) ==
    [start |-> w.start, end |-> w.end, word |-> w.word]

TranscriptSegment_to_dict_always(seg) ==
    [start |-> seg.start, end |-> seg.end, text |-> seg.text,
     words |-> IF seg.words.some
               THEN [i \in 1..Len(seg.words.val) |->
                        WordTimestamp_to_dict(seg.words.val[i])]
               ELSE <<>>]

(* data["words"] is set only if self.words is not None.                    *)
TranscriptSegment_to_dict(seg) ==
    IF seg.words.some
    THEN [start |-> seg.start, end |-> seg.end, text |-> seg.text,
          words |-> [i \in 1..Len(seg.words.val) |->
                        WordTimestamp_to_dict(seg.words.val[i])]]
    ELSE [start |-> seg.start, end |-> seg.end, text |-> seg.text]

Transcript_to_dict(t) ==
    [language |-> t.language,
     segments |-> [k \in 1..Len(t.segments) |->
                      TranscriptSegment_to_dict(t.segments[k])]]

----------------------------------------------------------------------------
(* video_editor/formatters.py                                              *)

Digits == <<"0", "1", "2", "3", "4", "5", "6", "7", "8", "9">>

(* The decimal digits of n >= 0, as format(n, "d") writes them.            *)
RECURSIVE Decimal(_)
Decimal(n) ==
    IF n < 10 THEN <<Digits[n + 1]>>
    ELSE Decimal(n \div 10) \o <<Digits[(n % 10) + 1]>>

(* "0" * k                                                                 *)
Zeros(k) == [i \in 1..k |-> "0"]

(* f"{n:0{width}d}" for n >= 0: zero-padded up to width, never cut.        *)
ZeroPad(n, width) ==
    LET d == Decimal(n)
    IN  IF Len(d) >= width THEN d ELSE Zeros(width - Len(d)) \o d

(* A float, given exactly: its whole part and the binary digits of its     *)
(* fraction, the last of them 1.  The floats of the model are >= 0 and     *)
(* below 2^31.                                                             *)
Float(whole, frac) == [whole |-> whole, frac |-> frac]

(* sys.float_info.mant_dig: a float keeps 53 significant binary digits.    *)
MantissaDigits == 53

RECURSIVE BitLength(_)
BitLength(n) == IF n = 0 THEN 0 ELSE 1 + BitLength(n \div 2)

(* The number of 0 digits before the first 1 of `bits`.                    *)
LeadingZeros(bits) ==
    IF \A i \in 1..Len(bits) : bits[i] = 0 THEN Len(bits)
    ELSE (CHOOSE i \in 1..Len(bits) :
              bits[i] = 1 /\ \A j \in 1..(i - 1) : bits[j] = 0) - 1

(* `bits` without the 0 digits after its last 1.                           *)
DropZeros(bits) ==
    IF \A i \in 1..Len(bits) : bits[i] = 0 THEN <<>>
    ELSE SubSeq(bits, 1, CHOOSE i \in 1..Len(bits) :
                             bits[i] = 1 /\ \A j \in (i + 1)..Len(bits) : bits[j] = 0)

(* The binary number `bits` plus one in its last place: the digits after   *)
(* its last 0 turn 0 and that 0 turns 1; without a 0 the one is carried.   *)
Increment(bits) ==
    LET zeros == { i \in 1..Len(bits) : bits[i] = 0 }
        last == IF zeros = {} THEN 0
                ELSE CHOOSE i \in zeros : \A j \in zeros : j <= i
    IN  [carry |-> IF last = 0 THEN 1 ELSE 0,
         bits |-> [i \in 1..Len(bits) |->
                      IF i < last THEN bits[i] ELSE IF i = last THEN 1 ELSE 0]]

(* The float nearest to whole + 0.bits (+ a rest below the last digit if   *)
(* `more`): the result of a float operation is its exact value rounded to  *)
(* MantissaDigits significant digits, to the even neighbour on a tie.      *)
RoundFloat(whole, bits, more) ==
    LET keep == IF whole > 0 THEN MantissaDigits - BitLength(whole)
                ELSE LeadingZeros(bits) + MantissaDigits
    IN  IF Len(bits) <= keep THEN Float(whole, DropZeros(bits))
        ELSE LET kept == SubSeq(bits, 1, keep)
                 rest == more \/ \E i \in (keep + 2)..Len(bits) : bits[i] = 1
                 odd == IF keep = 0 THEN whole % 2 = 1 ELSE kept[keep] = 1
                 up == bits[keep + 1] = 1 /\ (rest \/ odd)
                 next == Increment(kept)
             IN  IF up THEN Float(whole + next.carry, DropZeros(next.bits))
                 ELSE Float(whole, DropZeros(kept))

(* 2^i % den, by factors below 2^31; i <= 90 and den < 2^15.               *)
Pow2Mod(i, den) ==
    LET a == IF i < 30 THEN i ELSE 30
        b == IF i - a < 30 THEN i - a ELSE 30
    IN  ((((2 ^ a % den) * (2 ^ b % den)) % den) * (2 ^ (i - a - b) % den)) % den

(* The first k binary digits of num / den < 1 and what is left of num:     *)
(* long division, whose rest before digit i is num * 2^(i-1) % den.        *)
BinaryExpansion(num, den, k) ==
    [bits |-> [i \in 1..k |->
                  IF 2 * ((num * Pow2Mod(i - 1, den)) % den) >= den
                  THEN 1 ELSE 0],
     rest |-> (num * Pow2Mod(k, den)) % den]

(* float("whole.digits") for a decimal of `places` digits after the point  *)
(* that write the number num: the float nearest to whole + num/10^places.  *)
DecimalFloat(whole, num, places) ==
    LET e == BinaryExpansion(num, 10 ^ places,
                             MantissaDigits + 1 + 4 * places)
    IN  RoundFloat(whole, e.bits, e.rest # 0)

(* The float of a time of t ticks, a binary fraction.                      *)
TickFloat(t) ==
    Float(t \div TicksPerSecond,
          DropZeros(BinaryExpansion(t % TicksPerSecond, TicksPerSecond,
                                    BitLength(TicksPerSecond) - 1).bits))

(* The number that the binary digits `bits` write, below 2^31.             *)
RECURSIVE BitsValue(_)
BitsValue(bits) ==
    IF bits = <<>> THEN 0
    ELSE 2 * BitsValue(SubSeq(bits, 1, Len(bits) - 1)) + bits[Len(bits)]

(* The k binary digits that write v < 2^k.                                 *)
ValueBits(v, k) == [i \in 1..k |-> (v \div 2 ^ (k - i)) % 2]

(* The exact product of 0.bits and n: the whole part is the carry.  Long   *)
(* multiplication, by as many digits at a time as keep it below 2^31.      *)
RECURSIVE TimesBits(_, _)
TimesBits(bits, n) ==
    IF bits = <<>> THEN [carry |-> 0, bits |-> <<>>]
    ELSE LET k == IF Len(bits) < 30 - BitLength(n) THEN Len(bits)
                  ELSE 30 - BitLength(n)
             r == TimesBits(SubSeq(bits, k + 1, Len(bits)), n)
             v == BitsValue(SubSeq(bits, 1, k)) * n + r.carry
         IN  [carry |-> v \div 2 ^ k, bits |-> ValueBits(v % 2 ^ k, k) \o r.bits]

(* x * n for an int n >= 1: the product, rounded to a float.               *)
FloatTimes(x, n) ==
    LET p == TimesBits(x.frac, n)
    IN  RoundFloat(x.whole * n + p.carry, p.bits, FALSE)

(* x % n and x // n for an int n >= 1 and x >= 0; both are exact.          *)
FloatMod(x, n) == Float(x.whole % n, x.frac)
FloatFloorDiv(x, n) == Float(x.whole \div n, <<>>)

(* int(x) for x >= 0: the fraction is dropped.                             *)
int(x) == x.whole

(* hours = int(seconds // 3600)                                            *)
SrtHours(secs) == int(FloatFloorDiv(secs, 3600))

(* minutes = int((seconds % 3600) // 60)                                   *)
SrtMinutes(secs) == int(FloatFloorDiv(FloatMod(secs, 3600), 60))

(* secs = int(seconds % 60)                                                *)
SrtSecs(secs) == int(FloatMod(secs, 60))

SrtMillis_rounded(secs) ==
    LET x == FloatTimes(FloatMod(secs, 1), 1000)
    IN  IF x.frac # <<>> /\ x.frac[1] = 1 THEN x.whole + 1 ELSE x.whole

(* milliseconds = int((seconds % 1) * 1000)                                *)
SrtMillis(secs) == int(FloatTimes(FloatMod(secs, 1), 1000))

(* f"{hours:02d}:{minutes:02d}:{secs:02d},{milliseconds:03d}"              *)
_seconds_to_srt_time(secs) ==
    ZeroPad(SrtHours(secs), 2) \o <<":">>
    \o ZeroPad(SrtMinutes(secs), 2) \o <<":">>
    \o ZeroPad(SrtSecs(secs), 2) \o <<",">>
    \o ZeroPad(SrtMillis(secs), 3)

Arrow == <<" ", "-", "-", ">", " ">>

SrtEntry_fromZero(index, segment) ==
    << Decimal(index - 1),
       _seconds_to_srt_time(TickFloat(segment.start)) \o Arrow
           \o _seconds_to_srt_time(TickFloat(segment.end)),
       segment.text,
       <<>> >>

(* The four lines appended to srt_lines for one segment.                   *)
SrtEntry(index, segment) ==
    << Decimal(index),
       _seconds_to_srt_time(TickFloat(segment.start)) \o Arrow
           \o _seconds_to_srt_time(TickFloat(segment.end)),
       segment.text,
       <<>> >>

(* srt_lines after the loop over enumerate(transcript.segments, start=1)   *)
RECURSIVE SrtLines(_, _)
SrtLines(segs, index) ==
    IF index > Len(segs) THEN <<>>
    ELSE SrtEntry(index, segs[index]) \o SrtLines(segs, index + 1)

(* return "\n".join(srt_lines)                                             *)
format_srt(t) == join(<<"\n">>, SrtLines(t.segments, 1))

----------------------------------------------------------------------------
(* video_editor/formatters.py: format_json.                                *)
(* json.dumps sees None as null, a float as a number, a str as a string, a *)
(* list as an array and a dict as an object with its keys in insertion     *)
(* order.  A JSON value is one of:                                         *)

JNull == [null |-> TRUE]
JNum(n) == [num |-> n]
JStr(chars) == [str |-> chars]
JArr(items) == [arr |-> items]
JObj(members) == [obj |-> members]    \* a sequence of <<key, value>>

KeyStart == <<"s", "t", "a", "r", "t">>
KeyEnd == <<"e", "n", "d">>
KeyWord == <<"w", "o", "r", "d">>
KeyText == <<"t", "e", "x", "t">>
KeyWords == <<"w", "o", "r", "d", "s">>
KeyLanguage == <<"l", "a", "n", "g", "u", "a", "g", "e">>
KeySegments == <<"s", "e", "g", "m", "e", "n", "t", "s">>

(* The JSON value of the dict of a word, of a segment, of a transcript.    *)
WordDictJson(w) ==
    JObj(<< <<KeyStart, JNum(w.start)>>, <<KeyEnd, JNum(w.end)>>,
            <<KeyWord, JStr(w.word)>> >>)

SegmentDictJson(ds) ==
    JObj(<< <<KeyStart, JNum(ds.start)>>, <<KeyEnd, JNum(ds.end)>>,
            <<KeyText, JStr(ds.text)>> >>
         \o (IF "words" \in DOMAIN ds
             THEN << <<KeyWords,
                       JArr([i \in 1..Len(ds.words) |->
                                WordDictJson(ds.words[i])])>> >>
             ELSE <<>>))

TranscriptDictJson(d) ==
    JObj(<< <<KeyLanguage,
              IF d.language.some THEN JStr(d.language.val) ELSE JNull>>,
            <<KeySegments,
              JArr([k \in 1..Len(d.segments) |->
                       SegmentDictJson(d.segments[k])])>> >>)

(* The first n digits after the decimal point of f / TicksPerSecond.       *)
RECURSIVE FractionDigits(_, _)
FractionDigits(f, n) ==
    IF n = 0 THEN <<>>
    ELSE <<(f * 10) \div TicksPerSecond>>
         \o FractionDigits((f * 10) % TicksPerSecond, n - 1)

(* The number a digit sequence writes, or 1000 if it is larger.            *)
RECURSIVE CappedValue(_, _)
CappedValue(ds, acc) ==
    IF ds = <<>> THEN acc
    ELSE LET next == 10 * acc + Head(ds)
         IN  CappedValue(Tail(ds), IF next > 1000 THEN 1000 ELSE next)

NinesComplement(ds) == [i \in 1..Len(ds) |-> 9 - ds[i]]

RECURSIVE Log2(_)
Log2(n) == IF n < 2 THEN 0 ELSE 1 + Log2(n \div 2)

(* A multiple of 1 / 2^n has at most n digits after the decimal point.     *)
DecimalPlaces == Log2(TicksPerSecond)

(* A float has 53 bits: a decimal d reads back as the float v of whole     *)
(* part `whole` iff |d - v| < 2^(e-53), e = Log2(whole).  In units of      *)
(* 10^-12 that is 5^12 / 2^(41-e), which is below 1 for whole < 2^14.      *)
ReadBackSlack(whole) ==
    IF whole < 2 ^ 14 THEN 0
    ELSE (5 ^ 12 - 1) \div (2 ^ (41 - Log2(whole)))

(* digits + 1 in the last place, with the carry out of the first.          *)
RECURSIVE PlusOne(_)
PlusOne(ds) ==
    IF ds = <<>> THEN [digits |-> <<>>, carry |-> 1]
    ELSE IF ds[Len(ds)] < 9
    THEN [digits |-> [ds EXCEPT ![Len(ds)] = @ + 1], carry |-> 0]
    ELSE LET r == PlusOne(SubSeq(ds, 1, Len(ds) - 1))
         IN  [digits |-> Append(r.digits, 0), carry |-> r.carry]

(* whole.digits rounded to k places, to the nearest and to even on a tie,  *)
(* with the distance from the exact value in units of the last place of    *)
(* digits (1000 for that or more).                                         *)
RoundPlaces(whole, digits, k) ==
    LET kept == SubSeq(digits, 1, k)
        tail == SubSeq(digits, k + 1, Len(digits))
        down == CappedValue(tail, 0)
        up == CappedValue(NinesComplement(tail), 0) + 1
        even == IF k = 0 THEN whole % 2 = 0 ELSE kept[k] % 2 = 0
        roundUp == up < down \/ (up = down /\ ~even)
        plus == PlusOne(kept)
    IN  [whole |-> IF roundUp THEN whole + plus.carry ELSE whole,
         digits |-> IF roundUp THEN plus.digits ELSE kept,
         error |-> IF roundUp THEN up ELSE down]

(* The least number of places at which the rounded value reads back.       *)
RECURSIVE ShortestPlaces(_, _, _)
ShortestPlaces(whole, digits, k) ==
    IF RoundPlaces(whole, digits, k).error <= ReadBackSlack(whole) THEN k
    ELSE ShortestPlaces(whole, digits, k + 1)

RECURSIVE StripZeros(_)
StripZeros(ds) ==
    IF ds # <<>> /\ ds[Len(ds)] = 0 THEN StripZeros(SubSeq(ds, 1, Len(ds) - 1))
    ELSE ds

(* float.__repr__ of a time >= 0: the shortest decimal that reads back as  *)
(* the same float: 1.0, 0.5, 0.000244140625, 99999.00024414062.            *)
FloatRepr(t) ==
    LET whole == t \div TicksPerSecond
        digits == FractionDigits(t % TicksPerSecond, DecimalPlaces)
        r == RoundPlaces(whole, digits, ShortestPlaces(whole, digits, 0))
        places == StripZeros(r.digits)
    IN  Decimal(r.whole) \o <<".">>
        \o (IF places = <<>> THEN <<"0">>
            ELSE [i \in 1..Len(places) |-> Digits[places[i] + 1]])

(* The characters below U+0020, by code point + 1.                         *)
ControlCharacters ==
    << "U+0000", "U+0001", "U+0002", "U+0003", "U+0004", "U+0005", "U+0006",
       "U+0007", "U+0008", "\t", "\n", "U+000B", "\f", "\r", "U+000E",
       "U+000F", "U+0010", "U+0011", "U+0012", "U+0013", "U+0014", "U+0015",
       "U+0016", "U+0017", "U+0018", "U+0019", "U+001A", "U+001B", "U+001C",
       "U+001D", "U+001E", "U+001F" >>

IsControl(c) == \E i \in 1..Len(ControlCharacters) : ControlCharacters[i] = c
CodePoint(c) ==
    (CHOOSE i \in 1..Len(ControlCharacters) : ControlCharacters[i] = c) - 1

HexDigits ==
    << "0", "1", "2", "3", "4", "5", "6", "7", "8", "9",
       "a", "b", "c", "d", "e", "f" >>

EscapeChar_none(c) == <<c>>

(* The text json.dumps writes for one character of a string, with          *)
(* ensure_ascii=False.                                                     *)
EscapeChar(c) ==
    IF c = "\"" THEN <<"\\", "\"">>
    ELSE IF c = "\\" THEN <<"\\", "\\">>
    ELSE IF c = "\n" THEN <<"\\", "n">>
    ELSE IF c = "\r" THEN <<"\\", "r">>
    ELSE IF c = "\t" THEN <<"\\", "t">>
    ELSE IF c = "\f" THEN <<"\\", "f">>
    ELSE IF c = "U+0008" THEN <<"\\", "b">>
    ELSE IF IsControl(c)
    THEN <<"\\", "u", "0", "0", HexDigits[(CodePoint(c) \div 16) + 1],
           HexDigits[(CodePoint(c) % 16) + 1]>>
    ELSE <<c>>

RECURSIVE EscapeChars(_)
EscapeChars(chars) ==
    IF chars = <<>> THEN <<>>
    ELSE IF Len(chars) = 1 THEN EscapeChar(chars[1])
    ELSE LET half == Len(chars) \div 2
         IN  EscapeChars(SubSeq(chars, 1, half))
             \o EscapeChars(SubSeq(chars, half + 1, Len(chars)))

JsonString(chars) == <<"\"">> \o EscapeChars(chars) \o <<"\"">>

(* indent=2: a new line and two spaces for each level of nesting.          *)
Spaces(k) == [i \in 1..k |-> " "]
NewLine(level) == <<"\n">> \o Spaces(2 * level)

(* json.dumps(value, indent=2, ensure_ascii=False), at a nesting level.    *)
RECURSIVE JsonDumps(_, _)
RECURSIVE DumpElements(_, _)
RECURSIVE DumpMembers(_, _)
JsonDumps(v, level) ==
    IF "null" \in DOMAIN v THEN <<"n", "u", "l", "l">>
    ELSE IF "num" \in DOMAIN v THEN FloatRepr(v.num)
    ELSE IF "str" \in DOMAIN v THEN JsonString(v.str)
    ELSE IF "arr" \in DOMAIN v
    THEN IF v.arr = <<>> THEN <<"[", "]">>
         ELSE <<"[">> \o DumpElements(v.arr, level + 1)
              \o NewLine(level) \o <<"]">>
    ELSE IF v.obj = <<>> THEN <<"{", "}">>
         ELSE <<"{">> \o DumpMembers(v.obj, level + 1)
              \o NewLine(level) \o <<"}">>

DumpElements(items, level) ==
    NewLine(level) \o JsonDumps(Head(items), level)
    \o (IF Len(items) = 1 THEN <<>>
        ELSE <<",">> \o DumpElements(Tail(items), level))

DumpMembers(members, level) ==
    NewLine(level) \o JsonString(Head(members)[1]) \o <<":", " ">>
    \o JsonDumps(Head(members)[2], level)
    \o (IF Len(members) = 1 THEN <<>>
        ELSE <<",">> \o DumpMembers(Tail(members), level))

(* return json.dumps(transcript.to_dict(), indent=2, ensure_ascii=False)   *)
format_json(t) == JsonDumps(TranscriptDictJson(Transcript_to_dict(t)), 0)

----------------------------------------------------------------------------
(* video_editor/formatters.py: format and save_to_file.                    *)

(* class OutputFormat(Enum): a selector is a member of the enumeration;    *)
(* any other value, the str "json" too, equals none.                       *)
OutputFormat_JSON == [member |-> "OutputFormat.JSON", value |-> "json"]
OutputFormat_SRT == [member |-> "OutputFormat.SRT", value |-> "srt"]

(* A str given as the selector.                                            *)
StrSelector(s) == [str |-> s]

(* str(output_format), as the f-string writes it.                          *)
SelectorStr(output_format) ==
    IF "member" \in DOMAIN output_format THEN output_format.member
    ELSE output_format.str

(* raise ValueError(f"Unsupported output format: {output_format}")         *)
ValueErrorFormat(output_format) ==
    Raise("ValueError",
          "Unsupported output format: " \o SelectorStr(output_format))

format_lenient(t, output_format) ==
    IF output_format = OutputFormat_JSON THEN Return(format_json(t))
    ELSE IF output_format = OutputFormat_SRT THEN Return(format_srt(t))
    ELSE Return(<<>>)

format(t, output_format) ==
    IF output_format = OutputFormat_JSON THEN Return(format_json(t))
    ELSE IF output_format = OutputFormat_SRT THEN Return(format_srt(t))
    ELSE ValueErrorFormat(output_format)

(* open(output_path, "w"): the file is created or cut to length 0; the     *)
(* file object writes from position 0.                                     *)
OpenForWriting_keep(file) == IF file.some THEN file ELSE Some(<<>>)

OpenForWriting(file) == Some(<<>>)

(* The hexadecimal digits of a code point name and of a byte.              *)
UpperHex ==
    << "0", "1", "2", "3", "4", "5", "6", "7", "8", "9",
       "A", "B", "C", "D", "E", "F" >>

(* The number a string of hexadecimal digits writes.                       *)
RECURSIVE HexNumber(_)
HexNumber(ds) ==
    IF Len(ds) = 0 THEN 0
    ELSE 16 * HexNumber(SubSeq(ds, 1, Len(ds) - 1))
         + (CHOOSE i \in 1..16 : UpperHex[i] = SubSeq(ds, Len(ds), Len(ds)))
         - 1

(* ord(c) of a character named by its code point: "U+00A0" is 160.         *)
Ord(c) == HexNumber(SubSeq(c, 3, Len(c)))

(* A byte from 80 on, as two hexadecimal digits.                           *)
Byte(n) == UpperHex[(n \div 16) + 1] \o UpperHex[(n % 16) + 1]

(* encoding="utf-8": the bytes of one character.  A byte below 80 is       *)
(* written as the character it encodes.  A character below U+0080 is one   *)
(* byte, one below U+0800 two, one below U+10000 three and any other four  *)
(* bytes.  (A surrogate, U+D800 to U+DFFF, has no encoding; no text of the *)
(* model holds one.)                                                       *)
Utf8Char(c) ==
    IF Len(c) = 1 \/ Ord(c) < 128 THEN <<c>>
    ELSE LET n == Ord(c)
             tail1 == Byte(128 + (n % 64))
             tail2 == Byte(128 + ((n \div 64) % 64))
             tail3 == Byte(128 + ((n \div 4096) % 64))
         IN  IF n < 2048 THEN <<Byte(192 + (n \div 64)), tail1>>
             ELSE IF n < 65536 THEN <<Byte(224 + (n \div 4096)), tail2, tail1>>
             ELSE <<Byte(240 + (n \div 262144)), tail3, tail2, tail1>>

(* The bytes of a text in UTF-8.                                           *)
RECURSIVE Utf8Encode(_)
Utf8Encode(txt) ==
    IF txt = <<>> THEN <<>>
    ELSE IF Len(txt) = 1 THEN Utf8Char(txt[1])
    ELSE LET half == Len(txt) \div 2
         IN  Utf8Encode(SubSeq(txt, 1, half))
             \o Utf8Encode(SubSeq(txt, half + 1, Len(txt)))

(* io.DEFAULT_BUFFER_SIZE, the size of the buffer of the file object that  *)
(* open(output_path, "w") gives.                                           *)
BufferSize == 8192

(* f.write(content): a text of fewer bytes than the buffer holds stays in  *)
(* the file object; a longer one goes to the file at once.                 *)
Buffered(bytes) ==
    IF Len(bytes) < BufferSize THEN bytes ELSE <<>>

(* The file object writes bytes from position 0 on, over the bytes the     *)
(* file holds there: at write a text the buffer does not hold, at the end  *)
(* of the `with` block what the buffer holds.                              *)
Flush(old, buffer) ==
    buffer \o SubSeq(old, Len(buffer) + 1, Len(old))

----------------------------------------------------------------------------
(* parseJSON: a reader of JSON text, from position p of txt on.  A step    *)
(* gives ParseOk(value, next position) or ParseFail.                       *)

ParseFail == [ok |-> FALSE]
ParseOk(v, p) == [ok |-> TRUE, val |-> v, pos |-> p]

(* The character at p, "" past the end.                                    *)
CharAt(txt, p) == IF p >= 1 /\ p <= Len(txt) THEN txt[p] ELSE ""

JsonWhitespace == {" ", "\n", "\t", "\r"}

RECURSIVE SkipWhitespace(_, _)
SkipWhitespace(txt, p) ==
    IF CharAt(txt, p) \in JsonWhitespace THEN SkipWhitespace(txt, p + 1) ELSE p

IsDecimalDigit(c) == \E d \in 1..10 : Digits[d] = c
DecimalDigit(c) == (CHOOSE d \in 1..10 : Digits[d] = c) - 1

(* The end of the run of digits that starts at p.                          *)
RECURSIVE DigitsEnd(_, _)
DigitsEnd(txt, p) ==
    IF IsDecimalDigit(CharAt(txt, p)) THEN DigitsEnd(txt, p + 1) ELSE p

(* The number written by the digits txt[p..q-1].                           *)
RECURSIVE WholeValue(_, _, _)
WholeValue(txt, p, q) ==
    IF q <= p THEN 0
    ELSE 10 * WholeValue(txt, p, q - 1) + DecimalDigit(txt[q - 1])

(* The digits txt[p..q-1] as numbers.                                      *)
DigitsOf(txt, p, q) == [i \in 1..(q - p) |-> DecimalDigit(txt[p + i - 1])]

(* a - b for two digit sequences of one length, cut to -1000..1000.        *)
RECURSIVE CappedDifference(_, _, _)
CappedDifference(a, b, acc) ==
    IF a = <<>> THEN acc
    ELSE LET next == 10 * acc + Head(a) - Head(b)
         IN  CappedDifference(Tail(a), Tail(b),
                              IF next > 1000 THEN 1000
                              ELSE IF next < -1000 THEN -1000 ELSE next)

(* The distance of 0.digits from k / TicksPerSecond, in units of 10^-12.   *)
TickDistance(digits, k) ==
    IF k = TicksPerSecond
    THEN CappedValue(NinesComplement(digits), 0) + 1
    ELSE LET d == CappedDifference(digits,
                                   FractionDigits(k, DecimalPlaces), 0)
         IN  IF d < 0 THEN -d ELSE d

(* A number that is no multiple of a tick.                                 *)
JInexact(whole, digits) == [inexact |-> <<whole, digits>>]

(* The float a decimal reads as: the multiple of a tick within the         *)
(* float's read-back distance, if there is one.                            *)
ReadFloat(whole, fraction) ==
    LET digits == fraction \o [i \in 1..(DecimalPlaces - Len(fraction)) |-> 0]
        k0 == ((digits[1] * 1000 + digits[2] * 100 + digits[3] * 10
                + digits[4]) * TicksPerSecond) \div 10000
        near == {k \in {k0, k0 + 1} :
                    TickDistance(digits, k) <= ReadBackSlack(whole)}
    IN  IF Len(fraction) > DecimalPlaces \/ near = {}
        THEN JInexact(whole, fraction)
        ELSE JNum(whole * TicksPerSecond + (CHOOSE k \in near : TRUE))

ParseNumber(txt, p) ==
    LET q == DigitsEnd(txt, p)
        whole == WholeValue(txt, p, q)
    IN  IF q = p THEN ParseFail
        ELSE IF CharAt(txt, q) # "."
        THEN ParseOk(JNum(whole * TicksPerSecond), q)
        ELSE LET r == DigitsEnd(txt, q + 1)
             IN  IF r = q + 1 THEN ParseFail
                 ELSE ParseOk(ReadFloat(whole, DigitsOf(txt, q + 1, r)), r)

(* The value of the hexadecimal digit c, -1 if it is none.                 *)
HexValue(c) ==
    IF \E i \in 1..16 : HexDigits[i] = c
    THEN (CHOOSE i \in 1..16 : HexDigits[i] = c) - 1
    ELSE -1

(* The character of the escape \u00XY, X at position p.                    *)
UnicodeEscape(txt, p) ==
    LET x == HexValue(CharAt(txt, p))
        y == HexValue(CharAt(txt, p + 1))
    IN  IF x \in {0, 1} /\ y >= 0 THEN ControlCharacters[16 * x + y + 1]
        ELSE ""

(* The characters of a string up to its closing quote; p is after the      *)
(* opening quote.                                                          *)
RECURSIVE ParseChars(_, _, _)
ParseChars(txt, p, acc) ==
    LET c == CharAt(txt, p)
        e == CharAt(txt, p + 1)
    IN  IF c = "" THEN ParseFail
        ELSE IF c = "\"" THEN ParseOk(acc, p + 1)
        ELSE IF c # "\\" THEN ParseChars(txt, p + 1, Append(acc, c))
        ELSE IF e = "\"" \/ e = "\\" \/ e = "/"
             THEN ParseChars(txt, p + 2, Append(acc, e))
        ELSE IF e = "n" THEN ParseChars(txt, p + 2, Append(acc, "\n"))
        ELSE IF e = "t" THEN ParseChars(txt, p + 2, Append(acc, "\t"))
        ELSE IF e = "r" THEN ParseChars(txt, p + 2, Append(acc, "\r"))
        ELSE IF e = "f" THEN ParseChars(txt, p + 2, Append(acc, "\f"))
        ELSE IF e = "b" THEN ParseChars(txt, p + 2, Append(acc, "U+0008"))
        ELSE IF /\ e = "u" /\ CharAt(txt, p + 2) = "0"
                /\ CharAt(txt, p + 3) = "0"
                /\ UnicodeEscape(txt, p + 4) # ""
        THEN ParseChars(txt, p + 6, Append(acc, UnicodeEscape(txt, p + 4)))
        ELSE ParseFail

IsNullAt(txt, p) ==
    /\ CharAt(txt, p) = "n" /\ CharAt(txt, p + 1) = "u"
    /\ CharAt(txt, p + 2) = "l" /\ CharAt(txt, p + 3) = "l"

RECURSIVE ParseValue(_, _)
RECURSIVE ParseElements(_, _, _)
RECURSIVE ParseMembers(_, _, _)
ParseValue(txt, p0) ==
    LET p == SkipWhitespace(txt, p0)
        c == CharAt(txt, p)
    IN  IF IsNullAt(txt, p) THEN ParseOk(JNull, p + 4)
        ELSE IF c = "\""
        THEN LET r == ParseChars(txt, p + 1, <<>>)
             IN  IF r.ok THEN ParseOk(JStr(r.val), r.pos) ELSE ParseFail
        ELSE IF c = "["
        THEN IF CharAt(txt, SkipWhitespace(txt, p + 1)) = "]"
             THEN ParseOk(JArr(<<>>), SkipWhitespace(txt, p + 1) + 1)
             ELSE ParseElements(txt, p + 1, <<>>)
        ELSE IF c = "{"
        THEN IF CharAt(txt, SkipWhitespace(txt, p + 1)) = "}"
             THEN ParseOk(JObj(<<>>), SkipWhitespace(txt, p + 1) + 1)
             ELSE ParseMembers(txt, p + 1, <<>>)
        ELSE IF IsDecimalDigit(c) THEN ParseNumber(txt, p)
        ELSE ParseFail

(* The elements of an array after "[" or ",", up to "]".                   *)
ParseElements(txt, p, acc) ==
    LET r == ParseValue(txt, p)
        q == SkipWhitespace(txt, r.pos)
    IN  IF ~r.ok THEN ParseFail
        ELSE IF CharAt(txt, q) = ","
        THEN ParseElements(txt, q + 1, Append(acc, r.val))
        ELSE IF CharAt(txt, q) = "]"
        THEN ParseOk(JArr(Append(acc, r.val)), q + 1)
        ELSE ParseFail

(* The members of an object after "{" or ",", up to "}".                   *)
ParseMembers(txt, p0, acc) ==
    LET p == SkipWhitespace(txt, p0)
        k == ParseChars(txt, p + 1, <<>>)
        colon == SkipWhitespace(txt, k.pos)
        r == ParseValue(txt, colon + 1)
        q == SkipWhitespace(txt, r.pos)
    IN  IF CharAt(txt, p) # "\"" THEN ParseFail
        ELSE IF ~k.ok THEN ParseFail
        ELSE IF CharAt(txt, colon) # ":" THEN ParseFail
        ELSE IF ~r.ok THEN ParseFail
        ELSE IF CharAt(txt, q) = ","
        THEN ParseMembers(txt, q + 1, Append(acc, <<k.val, r.val>>))
        ELSE IF CharAt(txt, q) = "}"
        THEN ParseOk(JObj(Append(acc, <<k.val, r.val>>)), q + 1)
        ELSE ParseFail

(* The whole text is one JSON value.                                       *)
parseJSON(txt) ==
    LET r == ParseValue(txt, 1)
    IN  IF r.ok /\ SkipWhitespace(txt, r.pos) = Len(txt) + 1
        THEN Return(r.val)
        ELSE Raise("JSONDecodeError", "not a JSON document")

----------------------------------------------------------------------------
(* Inputs.                                                                 *)

(* Word texts as a speech engine produces them: plain, padded with         *)
(* whitespace (a space, an ideographic space), whitespace only (a carriage *)
(* return and a no-break space), empty.                                    *)
WordTexts ==
    { <<"a">>, <<"b">>, <<"c">>, <<" ", "d", "U+3000">>,
      <<"\r", "U+00A0">>, <<>> }

(* Words follow each other in time, half a second each.                    *)
WordStep == TicksPerSecond \div 2

(* A segment's shape is -1 (words absent) or its number of words.          *)
RECURSIVE ShapeWords(_)
ShapeWords(shape) ==
    IF shape = <<>> THEN 0
    ELSE (IF Head(shape) < 0 THEN 0 ELSE Head(shape)) + ShapeWords(Tail(shape))

Shapes ==
    UNION { { sh \in [1..n -> -1..MaxWordsPerSegment] :
                ShapeWords(sh) <= MaxTotalWords } : n \in 0..MaxSegments }

(* The segment list of a shape whose words carry the texts of flat.        *)
BuildSegments(shape, flat) ==
    [j \in 1..Len(shape) |->
        LET before == ShapeWords(SubSeq(shape, 1, j - 1))
            n == shape[j]
            slot == (before + j - 1) * WordStep
            words == [k \in 1..(IF n < 0 THEN 0 ELSE n) |->
                         WordTimestamp(slot + (k - 1) * WordStep,
                                       slot + k * WordStep,
                                       flat[before + k])]
        IN  TranscriptSegment(
                slot,
                slot + (IF n < 1 THEN 1 ELSE n) * WordStep,
                IF n < 0 THEN <<"h", "i">>
                ELSE strip(join(<<>>, [k \in 1..n |-> words[k].word])),
                IF n < 0 THEN None ELSE Some(words))]

(* segs is one of the segment lists the model splits.                      *)
IsInputSegmentList(segs) ==
    \E sh \in Shapes : \E flat \in [1..ShapeWords(sh) -> WordTexts] :
        segs = BuildSegments(sh, flat)

----------------------------------------------------------------------------
(* The splitter: one call, then a second call on what the first returned.  *)

InitSplit ==
    /\ pc = "start"
    /\ IsInputSegmentList(segments)
    /\ max_words \in -1..MaxWordsArg
    /\ split_out = NotCalled
    /\ resplit_out = NotCalled
    /\ transcript = Transcript(<<>>, None)
    /\ dict_out = NotCalled
    /\ srt_out = NotCalled
    /\ seconds = 0
    /\ srt_time = NotCalled
    /\ ExtIdle

Split ==
    /\ pc = "start"
    /\ split_out' = split_segments_by_max_words(segments, max_words)
    /\ pc' = "split"
    /\ UNCHANGED <<segments, max_words, resplit_out, transcript, dict_out,
                   srt_out, seconds, srt_time>>
    /\ UNCHANGED extVars

Resplit ==
    /\ pc = "split"
    /\ split_out.kind = "return"
    /\ resplit_out' = split_segments_by_max_words(split_out.value, max_words)
    /\ pc' = "resplit"
    /\ UNCHANGED <<segments, max_words, split_out, transcript, dict_out,
                   srt_out, seconds, srt_time>>
    /\ UNCHANGED extVars

NextSplit == Split \/ Resplit

SpecSplit == InitSplit /\ [][NextSplit]_vars

----------------------------------------------------------------------------
(* The formatter and the dict form, on a transcript of unsplit segments.   *)

FormatWordTexts == { <<"a">>, <<"U+2028", "b", " ">> }
Languages == { None, Some(<<"e", "n">>) }

InitFormat ==
    /\ pc = "start"
    /\ \E sh \in Shapes : \E flat \in [1..ShapeWords(sh) -> FormatWordTexts] :
           \E lang \in Languages :
               transcript = Transcript(BuildSegments(sh, flat), lang)
    /\ segments = <<>>
    /\ max_words = 1
    /\ split_out = NotCalled
    /\ resplit_out = NotCalled
    /\ dict_out = NotCalled
    /\ srt_out = NotCalled
    /\ seconds = 0
    /\ srt_time = NotCalled
    /\ ExtIdle

ToDict ==
    /\ dict_out = NotCalled
    /\ dict_out' = Return(Transcript_to_dict(transcript))
    /\ UNCHANGED <<pc, segments, max_words, split_out, resplit_out,
                   transcript, srt_out, seconds, srt_time>>
    /\ UNCHANGED extVars

FormatSrt ==
    /\ srt_out = NotCalled
    /\ srt_out' = Return(format_srt(transcript))
    /\ UNCHANGED <<pc, segments, max_words, split_out, resplit_out,
                   transcript, dict_out, seconds, srt_time>>
    /\ UNCHANGED extVars

NextFormat == ToDict \/ FormatSrt

SpecFormat == InitFormat /\ [][NextFormat]_vars

----------------------------------------------------------------------------
(* The time conversion, on times around the second, minute and hour marks: *)
(* binary fractions, the floats of the decimals with up to three digits    *)
(* after the point and of two with four, and the floats next to 1 and 0.   *)

FractionTicks ==
    { 0, 1, 5, TicksPerSecond \div 2, TicksPerSecond - 3,
      TicksPerSecond - 2, TicksPerSecond - 1 }

TickInputs ==
    { ((h * 60 + m) * 60 + sec) * TicksPerSecond + f :
         h \in {0, 1, MaxHours - 1, MaxHours}, m \in {0, 1, 59},
         sec \in {0, 1, 59}, f \in FractionTicks }

DecimalWholes == {0, 1, 59, 1023, 3661, MaxHours * 3600 - 1}

(* The largest float below 1 and a float next to 0, 2^-64.                 *)
EdgeFloats ==
    { Float(0, SubSeq([i \in 1..MantissaDigits |-> 1], 1, MantissaDigits)),
      Float(0, SubSeq([i \in 1..64 |-> IF i = 64 THEN 1 ELSE 0], 1, 64)) }

InitTime ==
    /\ pc = "start"
    /\ \/ \E t \in TickInputs : seconds = TickFloat(t)
       \/ \E whole \in DecimalWholes : \E num \in 0..999 :
              seconds = DecimalFloat(whole, num, 3)
       \/ seconds = DecimalFloat(59, 9996, 4)
       \/ seconds = DecimalFloat(3661, 9994, 4)
       \/ seconds \in EdgeFloats
    /\ srt_time = NotCalled
    /\ segments = <<>>
    /\ max_words = 1
    /\ split_out = NotCalled
    /\ resplit_out = NotCalled
    /\ transcript = Transcript(<<>>, None)
    /\ dict_out = NotCalled
    /\ srt_out = NotCalled
    /\ ExtIdle

SecondsToSrtTime ==
    /\ srt_time = NotCalled
    /\ srt_time' = [kind |-> "return",
                    hours |-> SrtHours(seconds),
                    minutes |-> SrtMinutes(seconds),
                    secs |-> SrtSecs(seconds),
                    milliseconds |-> SrtMillis(seconds),
                    value |-> _seconds_to_srt_time(seconds)]
    /\ UNCHANGED <<pc, segments, max_words, split_out, resplit_out,
                   transcript, dict_out, srt_out, seconds>>
    /\ UNCHANGED extVars

NextTime == SecondsToSrtTime

SpecTime == InitTime /\ [][NextTime]_vars

----------------------------------------------------------------------------
(* The splitter on objects.  The heap is the sequence of the objects       *)
(* created so far and the address of an object is its index: a list holds  *)
(* the addresses of its items, a TranscriptSegment the address of its      *)
(* words list or None, a WordTimestamp its three values.  A variable or an *)
(* argument holds an address.                                              *)

ObjWordTexts == { <<"a">>, <<" ", "b", "U+0085">>, <<"\f">> }

ListObject(items) == [class |-> "list", items |-> items]

WordObject(start, end, word) ==
    [class |-> "WordTimestamp", start |-> start, end |-> end, word |-> word]

SegmentObject(start, end, text, words) ==
    [class |-> "TranscriptSegment", start |-> start, end |-> end,
     text |-> text, words |-> words]

(* A new object: the heap with it and its address.                         *)
New(h, obj) == [heap |-> Append(h, obj), ref |-> Len(h) + 1]

(* The WordTimestamp values of the objects of the list at address l.       *)
WordsAt(h, l) ==
    [k \in 1..Len(h[l].items) |->
        LET w == h[h[l].items[k]] IN WordTimestamp(w.start, w.end, w.word)]

(* The TranscriptSegment values of the objects of the list at address l.   *)
SegmentsAt(h, l) ==
    [k \in 1..Len(h[l].items) |->
        LET seg == h[h[l].items[k]]
        IN  TranscriptSegment(seg.start, seg.end, seg.text,
                IF seg.words.some THEN Some(WordsAt(h, seg.words.val))
                ELSE None)]

(* The caller builds the argument: for each segment its WordTimestamp      *)
(* objects, its words list and the TranscriptSegment, then the list of the *)
(* segments.  No object is in two lists.                                   *)
RECURSIVE StoreSegments(_, _, _)
StoreSegments(h, segs, refs) ==
    IF segs = <<>> THEN New(h, ListObject(refs))
    ELSE LET seg == Head(segs)
             n == IF seg.words.some THEN Len(seg.words.val) ELSE 0
             h1 == h \o [k \in 1..n |->
                           WordObject(seg.words.val[k].start,
                                      seg.words.val[k].end,
                                      seg.words.val[k].word)]
             list == New(h1, ListObject([k \in 1..n |-> Len(h) + k]))
             made == IF seg.words.some
                     THEN New(list.heap,
                              SegmentObject(seg.start, seg.end, seg.text,
                                            Some(list.ref)))
                     ELSE New(h1, SegmentObject(seg.start, seg.end, seg.text,
                                                None))
         IN  StoreSegments(made.heap, Tail(segs), Append(refs, made.ref))

(* if not segment.words: words is None or an empty list                    *)
MissingWordsAt(h, segment) ==
    ~h[segment].words.some \/ h[h[segment].words.val].items = <<>>

FilterList_inPlace(h, l) ==
    [heap |-> [h EXCEPT ![l].items =
                  SelectSeq(@, LAMBDA w : NonBlank(h[w]))],
     ref |-> l]

(* words = [w for w in segment.words if w.word.strip()]: a new list of the *)
(* objects of the list at l whose word is not blank.                       *)
FilterList(h, l) ==
    New(h, ListObject(SelectSeq(h[l].items, LAMBDA w : NonBlank(h[w]))))

(* chunk = words[i:i + max_words]: a new list.                             *)
SliceList(h, words, i, m) == New(h, ListObject(Chunk(h[words].items, i, m)))

(* split_segments.append(x): the list at address l gets one more item.     *)
ListAppend(h, l, x) == [h EXCEPT ![l].items = Append(@, x)]

(* One turn of the inner loop: the chunk, the TranscriptSegment with       *)
(* words=chunk, and its append to split_segments.                          *)
AppendChunk(h, words, i, m, split_segments) ==
    LET chunk == SliceList(h, words, i, m)
        items == chunk.heap[chunk.ref].items
        start == chunk.heap[items[1]].start
        end == chunk.heap[items[Len(items)]].end
        text == ChunkText(WordsAt(chunk.heap, chunk.ref))
        made == New(chunk.heap,
                    SegmentObject(start, end, text, Some(chunk.ref)))
    IN  ListAppend(made.heap, split_segments, made.ref)

(* for i in range(0, len(words), max_words), from the k-th value on.       *)
RECURSIVE ChunkLoop(_, _, _, _, _)
ChunkLoop(h, words, k, m, split_segments) ==
    LET starts == Range0(Len(h[words].items), m)
    IN  IF k > Len(starts) THEN h
        ELSE ChunkLoop(AppendChunk(h, words, starts[k], m, split_segments),
                       words, k + 1, m, split_segments)

(* for segment in segments, from index idx on: the heap and the outcome.   *)
RECURSIVE SegmentLoop(_, _, _, _, _)
SegmentLoop(h, segs, idx, m, split_segments) ==
    IF idx > Len(h[segs].items)
    THEN [heap |-> h, out |-> Return(split_segments)]
    ELSE LET segment == h[segs].items[idx] IN
         IF MissingWordsAt(h, segment)
         THEN [heap |-> h, out |-> Raise("ValueError", ValueErrorNoWords)]
         ELSE LET words == FilterList(h, h[segment].words.val)
              IN  IF words.heap[words.ref].items = <<>>
                  THEN SegmentLoop(words.heap, segs, idx + 1, m,
                                   split_segments)
                  ELSE SegmentLoop(ChunkLoop(words.heap, words.ref, 1, m,
                                             split_segments),
                                   segs, idx + 1, m, split_segments)

(* split_segments_by_max_words(segments, max_words) on the heap h, segs    *)
(* the address of the list `segments`: the heap after the call and the     *)
(* outcome, the address of the returned list or the exception.             *)
SplitCall(h, segs, m) ==
    IF BadMaxWords(m)
    THEN [heap |-> h, out |-> Raise("ValueError", ValueErrorMaxWords)]
    ELSE LET split_segments == New(h, ListObject(<<>>))
         IN  SegmentLoop(split_segments.heap, segs, 1, m, split_segments.ref)

CoreIdle ==
    /\ segments = <<>>
    /\ max_words = 1
    /\ split_out = NotCalled
    /\ resplit_out = NotCalled
    /\ transcript = Transcript(<<>>, None)
    /\ dict_out = NotCalled
    /\ srt_out = NotCalled
    /\ seconds = 0
    /\ srt_time = NotCalled

InitObjects ==
    /\ pc = "start"
    /\ \E sh \in Shapes : \E flat \in [1..ShapeWords(sh) -> ObjWordTexts] :
           LET made == StoreSegments(<<>>, BuildSegments(sh, flat), <<>>)
           IN  /\ heap = made.heap
               /\ obj_segments = made.ref
    /\ obj_out = NotCalled
    /\ JsonIdle
    /\ SysIdle
    /\ segments = <<>>
    /\ max_words \in -1..MaxWordsArg
    /\ split_out = NotCalled
    /\ resplit_out = NotCalled
    /\ transcript = Transcript(<<>>, None)
    /\ dict_out = NotCalled
    /\ srt_out = NotCalled
    /\ seconds = 0
    /\ srt_time = NotCalled

SplitObjects ==
    /\ pc = "start"
    /\ LET after == SplitCall(heap, obj_segments, max_words)
       IN  /\ heap' = after.heap
           /\ obj_out' = after.out
    /\ pc' = "split"
    /\ UNCHANGED <<obj_segments, segments, max_words, split_out, resplit_out, transcript,
                   dict_out, srt_out, seconds, srt_time>>
    /\ UNCHANGED <<jsonVars, sysVars>>

NextObjects == SplitObjects

SpecObjects == InitObjects /\ [][NextObjects]_vars

----------------------------------------------------------------------------
(* The JSON form: format_json, then a JSON reader on its text.             *)

(* Word texts with the characters json.dumps writes in another form: a    *)
(* quote, a backslash, characters below U+0020; and with whitespace it     *)
(* writes as it is.                                                        *)
JsonWordTexts ==
    { <<"a">>,
      <<" ", "\"", "\\", "\r", "U+0008", "U+001F", "U+00A0", "\n">> }

(* Where a recording's transcript starts: at 0, or hours into it, at a     *)
(* time whose float has not the bits for all its decimal places.           *)
TimeBases ==
    { 0, 99999 * TicksPerSecond + 1,
      (MaxHours * 3600 - 10) * TicksPerSecond - 1 }

(* The segments, all times later by base.                                  *)
ShiftSegments(segs, base) ==
    [j \in 1..Len(segs) |->
        TranscriptSegment(
            segs[j].start + base, segs[j].end + base, segs[j].text,
            IF segs[j].words.some
            THEN Some([k \in 1..Len(segs[j].words.val) |->
                          WordTimestamp(segs[j].words.val[k].start + base,
                                        segs[j].words.val[k].end + base,
                                        segs[j].words.val[k].word)])
            ELSE None)]

InitJson ==
    /\ pc = "start"
    /\ \E sh \in Shapes : \E flat \in [1..ShapeWords(sh) -> JsonWordTexts] :
           \E lang \in Languages : \E base \in TimeBases :
               transcript =
                   Transcript(ShiftSegments(BuildSegments(sh, flat), base),
                              lang)
    /\ json_out = NotCalled
    /\ json_parsed = NotCalled
    /\ segments = <<>>
    /\ max_words = 1
    /\ split_out = NotCalled
    /\ resplit_out = NotCalled
    /\ dict_out = NotCalled
    /\ srt_out = NotCalled
    /\ seconds = 0
    /\ srt_time = NotCalled
    /\ ObjIdle
    /\ SysIdle

FormatJson ==
    /\ pc = "start"
    /\ json_out' = Return(format_json(transcript))
    /\ pc' = "formatted"
    /\ UNCHANGED <<segments, max_words, split_out, resplit_out, transcript,
                   dict_out, srt_out, seconds, srt_time, json_parsed>>
    /\ UNCHANGED <<objVars, sysVars>>

ParseJson ==
    /\ pc = "formatted"
    /\ json_parsed' = parseJSON(json_out.value)
    /\ pc' = "parsed"
    /\ UNCHANGED <<segments, max_words, split_out, resplit_out, transcript,
                   dict_out, srt_out, seconds, srt_time, json_out>>
    /\ UNCHANGED <<objVars, sysVars>>

NextJson == FormatJson \/ ParseJson

SpecJson == InitJson /\ [][NextJson]_vars

----------------------------------------------------------------------------
(* save_to_file: calls running side by side, each one statement at a time: *)
(* format, open, write, close.  The files hold bytes.                      *)

Savers == 1..MaxSavers
Paths == 1..MaxSavers
SaveFormats ==
    {OutputFormat_JSON, OutputFormat_SRT, StrSelector("txt"),
     StrSelector("json")}

(* A text of more bytes than the buffer holds, in fewer characters.        *)
LongText ==
    <<"x">> \o [i \in 1..(BufferSize \div 2) |-> "U+00A0"] \o <<"i">>

(* The transcript of call s: one segment that ends after s half seconds;   *)
(* the text of call 1 is long, the others have a no-break space too.       *)
SaverTranscript(s) ==
    Transcript(<< TranscriptSegment(0, s * WordStep,
                                    IF s = 1 THEN LongText
                                    ELSE <<"h", "U+00A0", "i">>,
                                    None) >>,
               None)

(* What the files hold before the calls: every other path has a file.      *)
OldContent == [i \in 1..OldLength |-> "x"]
InitialFiles == [p \in Paths |-> IF p % 2 = 1 THEN Some(OldContent) ELSE None]

InitSave ==
    /\ pc = "start"
    /\ CoreIdle
    /\ ObjIdle
    /\ JsonIdle
    /\ ServerIdle
    /\ CliIdle
    /\ files = InitialFiles
    /\ handles = {}
    /\ \E path \in [Savers -> Paths] : \E fmt \in [Savers -> SaveFormats] :
           savers = [s \in Savers |->
                        [pc |-> "call", output_path |-> path[s],
                         output_format |-> fmt[s], content |-> <<>>,
                         buffer |-> <<>>, result |-> NotCalled]]

(* TranscriptFormatter.format(transcript, output_format) of call s with    *)
(* each selector: what it returns or raises.                               *)
FormatCall ==
    [s \in Savers |->
        [f \in SaveFormats |-> format(SaverTranscript(s), f)]]

(* The bytes of what the call returns, as f.write(content) encodes them.   *)
EncodedCall ==
    [s \in Savers |->
        [f \in SaveFormats |->
            IF FormatCall[s][f].kind = "return"
            THEN Utf8Encode(FormatCall[s][f].value) ELSE <<>>]]

(* What a step of save_to_file leaves alone.                               *)
SaveFrame == UNCHANGED <<coreVars, objVars, jsonVars, srvVars, cliVars>>

(* content = TranscriptFormatter.format(transcript, output_format)         *)
SaveFormat(s) ==
    /\ savers[s].pc = "call"
    /\ LET r == FormatCall[s][savers[s].output_format]
       IN  savers' = [savers EXCEPT ![s] =
                IF r.kind = "raise"
                THEN [@ EXCEPT !.pc = "raised", !.result = r]
                ELSE [@ EXCEPT !.pc = "formatted", !.content = r.value]]
    /\ UNCHANGED <<files, handles>>
    /\ SaveFrame

(* with open(output_path, "w", encoding="utf-8") as f:                     *)
SaveOpen(s) ==
    /\ savers[s].pc = "formatted"
    /\ files' = [files EXCEPT ![savers[s].output_path] = OpenForWriting(@)]
    /\ handles' = handles \cup {s}
    /\ savers' = [savers EXCEPT ![s].pc = "opened"]
    /\ SaveFrame

(* f.write(content)                                                        *)
SaveWrite(s) ==
    /\ savers[s].pc = "opened"
    /\ LET bytes == EncodedCall[s][savers[s].output_format] IN
       /\ savers' = [savers EXCEPT ![s].pc = "written",
                                   ![s].buffer = Buffered(bytes)]
       /\ files' = [files EXCEPT ![savers[s].output_path] =
                        IF Buffered(bytes) = bytes THEN @
                        ELSE Some(Flush(@.val, bytes))]
    /\ UNCHANGED handles
    /\ SaveFrame

(* the end of the `with` block                                             *)
SaveClose(s) ==
    /\ savers[s].pc = "written"
    /\ files' = [files EXCEPT ![savers[s].output_path] =
                     Some(Flush(@.val, savers[s].buffer))]
    /\ handles' = handles \ {s}
    /\ savers' = [savers EXCEPT ![s].pc = "returned",
                                ![s].result = Return(None)]
    /\ SaveFrame

NextSave ==
    \E s \in Savers :
        SaveFormat(s) \/ SaveOpen(s) \/ SaveWrite(s) \/ SaveClose(s)

SpecSave == InitSave /\ [][NextSave]_vars

----------------------------------------------------------------------------
(* server.py: the job table, the upload handler, the worker thread of a    *)
(* job and the /status and /download handlers.                             *)

JobStatus_PENDING == "pending"
JobStatus_UPLOADING == "uploading"
JobStatus_PROCESSING == "processing"
JobStatus_COMPLETED == "completed"
JobStatus_ERROR == "error"

(* jobs[j] when job_id is not in jobs, and a job's dict: "error",          *)
(* "srt_path" and "filename" are None while the key is missing; a dict     *)
(* without "status" and "progress" reads as PENDING and 0, the defaults of *)
(* job.get.                                                                *)
NoJob == [present |-> FALSE]
NewJob == [present |-> TRUE, status |-> JobStatus_PENDING, progress |-> 0,
           error |-> None, srt_path |-> None, filename |-> None]

(* update_job_status, statement by statement.                              *)
(* if job_id not in jobs: jobs[job_id] = {}                                *)
EnsureJob(table, job_id) ==
    IF table[job_id].present THEN table ELSE [table EXCEPT ![job_id] = NewJob]

(* jobs[job_id]["status"] = status                                         *)
StoreStatus(table, job_id, status) ==
    [table EXCEPT ![job_id].status = status]

(* jobs[job_id]["progress"] = progress                                     *)
StoreProgress(table, job_id, progress) ==
    [table EXCEPT ![job_id].progress = progress]

(* if error: jobs[job_id]["error"] = error                                 *)
StoreError(table, job_id, error) ==
    IF Truthy(error) THEN [table EXCEPT ![job_id].error = error] ELSE table

(* The whole call, as it runs in the event loop's thread, where no handler *)
(* runs between its statements.                                            *)
update_job_status(table, job_id, status, progress, error) ==
    StoreError(
        StoreProgress(
            StoreStatus(EnsureJob(table, job_id), job_id, status),
            job_id, progress),
        job_id, error)

JobIds == 1..MaxJobs

(* The files of job j: the upload, the audio extracted from it, the SRT.   *)
UploadFile(j) == <<"upload", j>>
AudioFile(j) == <<"audio", j>>
SrtFile(j) == <<"srt", j>>

(* The statements of the worker's try block that call out and can raise:   *)
(* AudioExtractor() (no ffmpeg), extract_audio, transcribe, save_to_file.  *)
FallibleSteps_all ==
    {"w_is_video", "w_extract", "w_transcribe", "w_save", "w_srt_path"}

FallibleSteps == {"w_is_video", "w_extract", "w_transcribe", "w_save"}

(* str(e) of an exception: its message, empty for one raised without.      *)
ExceptionTexts == { <<"f", "a", "i", "l", "e", "d">>, <<>> }

InitServer ==
    /\ pc = "start"
    /\ CoreIdle
    /\ ObjIdle
    /\ JsonIdle
    /\ SaveIdle
    /\ CliIdle
    /\ jobs = [j \in JobIds |-> NoJob]
    /\ disk = {}
    /\ proc = [j \in JobIds |-> [pc |-> "absent", is_video |-> FALSE,
                                 audio_path |-> <<>>, exc |-> <<>>,
                                 progress |-> 0, error |-> None,
                                 return_to |-> "absent", unremoved |-> {}]]
    /\ handler = [kind |-> "idle"]
    /\ response = [req |-> "none"]

(* A step of job j that only moves its position.                           *)
Goto(j, to) == proc' = [proc EXCEPT ![j].pc = to]
Fail(j, to, msg) == proc' = [proc EXCEPT ![j].pc = to, ![j].exc = msg]

(* The worker's thread calls update_job_status and runs it up to the store *)
(* of the status; the handlers run in another thread and see the job       *)
(* between the stores.  The call returns to position `to`.                 *)
CallUpdate(j, status, progress, error, to) ==
    /\ jobs' = StoreStatus(EnsureJob(jobs, j), j, status)
    /\ proc' = [proc EXCEPT ![j].pc = "store_progress",
                            ![j].progress = progress, ![j].error = error,
                            ![j].return_to = to]

(* try: if os.path.exists(path): os.remove(path)                           *)
(* except OSError: pass                                                    *)
(* The file is removed, or os.remove raises and the file stays on disk;    *)
(* the worker goes on to position `to` either way.                         *)
TryRemove(j, path, to) ==
    \E failed \in (IF path \in disk THEN BOOLEAN ELSE {FALSE}) :
        /\ disk' = IF failed THEN disk ELSE disk \ {path}
        /\ proc' = [proc EXCEPT ![j].pc = to,
                                ![j].unremoved =
                                    IF failed THEN @ \cup {path} ELSE @]

(* response is the answer a step sends; a step that sends none leaves no   *)
(* answer.                                                                 *)
NoResponse == response' = [req |-> "none"]

(* What a step of the server leaves alone.                                 *)
ServerFrame == UNCHANGED <<coreVars, objVars, jsonVars, saveVars, cliVars>>

(* The file a failing call of the worker may leave half written.           *)
Leftover(j, step) ==
    IF step = "w_extract" THEN {AudioFile(j)}
    ELSE IF step = "w_save" THEN {SrtFile(j)}
    ELSE {}

(* upload_video: update_job_status(job_id, JobStatus.UPLOADING, 0)         *)
UploadStart(j) ==
    /\ proc[j].pc = "absent"
    /\ \E v \in BOOLEAN : proc' = [proc EXCEPT ![j].pc = "u_open",
                                               ![j].is_video = v]
    /\ jobs' = update_job_status(jobs, j, JobStatus_UPLOADING, 0, None)
    /\ UNCHANGED <<disk, handler>>
    /\ NoResponse
    /\ ServerFrame

(* with open(file_path, "wb") as f:                                        *)
UploadOpen(j) ==
    /\ proc[j].pc = "u_open"
    /\ \/ /\ disk' = disk \cup {UploadFile(j)}
          /\ Goto(j, "u_write")
       \/ /\ disk' = disk
          /\ Fail(j, "u_except", <<"o", "p", "e", "n">>)
    /\ UNCHANGED <<jobs, handler>>
    /\ NoResponse
    /\ ServerFrame

(* content = await file.read(); f.write(content); create_task(...)         *)
UploadWrite(j) ==
    /\ proc[j].pc = "u_write"
    /\ \/ Goto(j, "queued")
       \/ \E msg \in ExceptionTexts : Fail(j, "u_except", msg)
    /\ UNCHANGED <<jobs, disk, handler>>
    /\ NoResponse
    /\ ServerFrame

(* except Exception as e: update_job_status(job_id, ERROR, error=str(e))   *)
UploadExcept(j) ==
    /\ proc[j].pc = "u_except"
    /\ jobs' = update_job_status(jobs, j, JobStatus_ERROR, 0,
                                 Some(proc[j].exc))
    /\ Goto(j, "upload_failed")
    /\ UNCHANGED <<disk, handler>>
    /\ NoResponse
    /\ ServerFrame

(* _process_transcription_sync: update_job_status(PROCESSING, 10)          *)
WorkerStart(j) ==
    /\ proc[j].pc = "queued"
    /\ CallUpdate(j, JobStatus_PROCESSING, 10, None, "w_is_video")
    /\ UNCHANGED <<disk, handler>>
    /\ NoResponse
    /\ ServerFrame

(* update_job_status in the worker's thread:                               *)
(* jobs[job_id]["progress"] = progress; if error: (not yet the store)      *)
WorkerStoreProgress(j) ==
    /\ proc[j].pc = "store_progress"
    /\ jobs' = StoreProgress(jobs, j, proc[j].progress)
    /\ Goto(j, IF Truthy(proc[j].error) THEN "store_error"
               ELSE proc[j].return_to)
    /\ UNCHANGED <<disk, handler>>
    /\ NoResponse
    /\ ServerFrame

(* update_job_status in the worker's thread: jobs[job_id]["error"] = error *)
WorkerStoreError(j) ==
    /\ proc[j].pc = "store_error"
    /\ jobs' = StoreError(jobs, j, proc[j].error)
    /\ Goto(j, proc[j].return_to)
    /\ UNCHANGED <<disk, handler>>
    /\ NoResponse
    /\ ServerFrame

(* extractor = AudioExtractor()                                            *)
(* if extractor.is_video_file(file_path):                                  *)
(*     update_job_status(job_id, JobStatus.PROCESSING, progress=20)        *)
(* else: audio_path = file_path                                            *)
WorkerIsVideo(j) ==
    /\ proc[j].pc = "w_is_video"
    /\ IF proc[j].is_video
       THEN CallUpdate(j, JobStatus_PROCESSING, 20, None, "w_extract")
       ELSE /\ jobs' = jobs
            /\ proc' = [proc EXCEPT ![j].pc = "w_progress30",
                                    ![j].audio_path = UploadFile(j)]
    /\ UNCHANGED <<disk, handler>>
    /\ NoResponse
    /\ ServerFrame

(* audio_path = extractor.extract_audio(file_path, keep_temp=True): the    *)
(* audio is written to a new temporary file.                               *)
WorkerExtract(j) ==
    /\ proc[j].pc = "w_extract"
    /\ disk' = disk \cup {AudioFile(j)}
    /\ proc' = [proc EXCEPT ![j].pc = "w_progress30",
                            ![j].audio_path = AudioFile(j)]
    /\ UNCHANGED <<jobs, handler>>
    /\ NoResponse
    /\ ServerFrame

(* update_job_status(job_id, JobStatus.PROCESSING, progress=30)            *)
WorkerProgress30(j) ==
    /\ proc[j].pc = "w_progress30"
    /\ CallUpdate(j, JobStatus_PROCESSING, 30, None, "w_transcriber")
    /\ UNCHANGED <<disk, handler>>
    /\ NoResponse
    /\ ServerFrame

(* transcriber = Transcriber(model_size="base", backend="openai"), which   *)
(* accepts these values; update_job_status(PROCESSING, 40)                 *)
WorkerTranscriber(j) ==
    /\ proc[j].pc = "w_transcriber"
    /\ CallUpdate(j, JobStatus_PROCESSING, 40, None, "w_transcribe")
    /\ UNCHANGED <<disk, handler>>
    /\ NoResponse
    /\ ServerFrame

(* result = transcriber.transcribe(audio_path);                            *)
(* update_job_status(PROCESSING, 70)                                       *)
WorkerTranscribe(j) ==
    /\ proc[j].pc = "w_transcribe"
    /\ CallUpdate(j, JobStatus_PROCESSING, 70, None, "w_convert")
    /\ UNCHANGED <<disk, handler>>
    /\ NoResponse
    /\ ServerFrame

(* transcript = Transcript(...); update_job_status(PROCESSING, 85)         *)
WorkerConvert(j) ==
    /\ proc[j].pc = "w_convert"
    /\ CallUpdate(j, JobStatus_PROCESSING, 85, None, "w_save")
    /\ UNCHANGED <<disk, handler>>
    /\ NoResponse
    /\ ServerFrame

(* srt_path = TEMP_DIR / f"{job_id}.srt"; save_to_file(transcript,         *)
(* str(srt_path), OutputFormat.SRT)                                        *)
WorkerSave(j) ==
    /\ proc[j].pc = "w_save"
    /\ disk' = disk \cup {SrtFile(j)}
    /\ Goto(j, "w_completed")
    /\ UNCHANGED <<jobs, handler>>
    /\ NoResponse
    /\ ServerFrame

(* update_job_status(job_id, JobStatus.COMPLETED, progress=100)            *)
WorkerCompleted(j) ==
    /\ proc[j].pc = "w_completed"
    /\ CallUpdate(j, JobStatus_COMPLETED, 100, None, "w_srt_path")
    /\ UNCHANGED <<disk, handler>>
    /\ NoResponse
    /\ ServerFrame

(* jobs[job_id]["srt_path"] = str(srt_path)                                *)
WorkerSrtPath(j) ==
    /\ proc[j].pc = "w_srt_path"
    /\ jobs' = [jobs EXCEPT ![j].srt_path = Some(SrtFile(j))]
    /\ Goto(j, "w_filename")
    /\ UNCHANGED <<disk, handler>>
    /\ NoResponse
    /\ ServerFrame

(* jobs[job_id]["filename"] = Path(file_path).stem + ".srt"                *)
WorkerFilename(j) ==
    /\ proc[j].pc = "w_filename"
    /\ jobs' = [jobs EXCEPT ![j].filename = Some(UploadFile(j))]
    /\ Goto(j, "w_clean_audio")
    /\ UNCHANGED <<disk, handler>>
    /\ NoResponse
    /\ ServerFrame

(* if extractor.is_video_file(file_path) and audio_path != file_path:      *)
(*     try: if os.path.exists(audio_path): os.remove(audio_path)           *)
(*     except OSError: pass                                                *)
WorkerCleanAudio(j) ==
    /\ proc[j].pc = "w_clean_audio"
    /\ IF proc[j].is_video /\ proc[j].audio_path # UploadFile(j)
       THEN TryRemove(j, proc[j].audio_path, "w_clean_upload")
       ELSE Goto(j, "w_clean_upload") /\ UNCHANGED disk
    /\ UNCHANGED <<jobs, handler>>
    /\ NoResponse
    /\ ServerFrame

(* try: if os.path.exists(file_path): os.remove(file_path)                 *)
(* except OSError: pass                                                    *)
WorkerCleanUpload(j) ==
    /\ proc[j].pc = "w_clean_upload"
    /\ TryRemove(j, UploadFile(j), "done")
    /\ UNCHANGED <<jobs, handler>>
    /\ NoResponse
    /\ ServerFrame

(* A call in the try block raises: AudioExtractor() (ffmpeg is not on the  *)
(* PATH), extract_audio, transcribe or save_to_file.  The file the call    *)
(* was writing may or may not have been created.                           *)
WorkerRaise(j) ==
    /\ proc[j].pc \in FallibleSteps
    /\ \E left \in SUBSET Leftover(j, proc[j].pc) : disk' = disk \cup left
    /\ \E msg \in ExceptionTexts : Fail(j, "w_except", msg)
    /\ UNCHANGED <<jobs, handler>>
    /\ NoResponse
    /\ ServerFrame

(* except Exception as e: update_job_status(job_id, ERROR, error=str(e))   *)
WorkerExcept(j) ==
    /\ proc[j].pc = "w_except"
    /\ CallUpdate(j, JobStatus_ERROR, 0, Some(proc[j].exc), "w_error_clean")
    /\ UNCHANGED <<disk, handler>>
    /\ NoResponse
    /\ ServerFrame

(* try: if os.path.exists(file_path): os.remove(file_path)                 *)
(* except OSError: pass                                                    *)
WorkerErrorClean(j) ==
    /\ proc[j].pc = "w_error_clean"
    /\ TryRemove(j, UploadFile(j), "done")
    /\ UNCHANGED <<jobs, handler>>
    /\ NoResponse
    /\ ServerFrame

Worker(j) ==
    \/ WorkerStart(j) \/ WorkerStoreProgress(j) \/ WorkerStoreError(j)
    \/ WorkerIsVideo(j) \/ WorkerExtract(j)
    \/ WorkerProgress30(j) \/ WorkerTranscriber(j) \/ WorkerTranscribe(j)
    \/ WorkerConvert(j) \/ WorkerSave(j) \/ WorkerCompleted(j)
    \/ WorkerSrtPath(j) \/ WorkerFilename(j) \/ WorkerCleanAudio(j)
    \/ WorkerCleanUpload(j) \/ WorkerRaise(j) \/ WorkerExcept(j)
    \/ WorkerErrorClean(j)

Upload(j) ==
    UploadStart(j) \/ UploadOpen(j) \/ UploadWrite(j) \/ UploadExcept(j)

HttpError(req, j, code, detail) ==
    [req |-> req, job |-> j, code |-> code, detail |-> detail]

(* job.get("filename", "transcript.srt")                                   *)
FallbackFilename == [fallback |-> TRUE]
FilenameOf(job) ==
    IF job.filename.some THEN [fallback |-> FALSE, name |-> job.filename.val]
    ELSE FallbackFilename

(* The handlers run in the event loop's thread, one at a time, each read   *)
(* of the job's dict a step of its own beside the worker's thread.         *)

(* get_status: if job_id not in jobs: 404; job = jobs[job_id];             *)
(* "status": job.get("status", JobStatus.PENDING)                          *)
StatusRead(j) ==
    /\ handler.kind = "idle"
    /\ IF ~jobs[j].present
       THEN /\ response' = HttpError("status", j, 404, "Job not found")
            /\ handler' = handler
       ELSE /\ handler' = [kind |-> "status_progress", job |-> j,
                           status |-> jobs[j].status]
            /\ NoResponse
    /\ UNCHANGED <<jobs, disk, proc>>
    /\ ServerFrame

(* "progress": job.get("progress", 0)                                      *)
StatusReadProgress ==
    /\ handler.kind = "status_progress"
    /\ handler' = [kind |-> "status_error", job |-> handler.job,
                   status |-> handler.status,
                   progress |-> jobs[handler.job].progress]
    /\ UNCHANGED <<jobs, disk, proc>>
    /\ NoResponse
    /\ ServerFrame

(* if job.get("error"): response["error"] = job["error"]; the key is       *)
(* stored once, so the two reads give the same.                            *)
StatusReadError ==
    /\ handler.kind = "status_error"
    /\ handler' = [kind |-> "status_filename", job |-> handler.job,
                   status |-> handler.status, progress |-> handler.progress,
                   error |-> jobs[handler.job].error]
    /\ UNCHANGED <<jobs, disk, proc>>
    /\ NoResponse
    /\ ServerFrame

(* if job.get("status") == JobStatus.COMPLETED:                            *)
(*     response["filename"] = job.get("filename", "transcript.srt")        *)
(* A COMPLETED status stays, so the read of the filename may be taken at   *)
(* the time of the test.                                                   *)
StatusRespond ==
    /\ handler.kind = "status_filename"
    /\ response' = [req |-> "status", job |-> handler.job, code |-> 200,
                    status |-> handler.status, progress |-> handler.progress,
                    error |-> handler.error,
                    filename |->
                        IF jobs[handler.job].status = JobStatus_COMPLETED
                        THEN Some(FilenameOf(jobs[handler.job])) ELSE None]
    /\ handler' = [kind |-> "idle"]
    /\ UNCHANGED <<jobs, disk, proc>>
    /\ ServerFrame

(* download_srt, up to the check of the status.                            *)
DownloadCheck(j) ==
    /\ handler.kind = "idle"
    /\ IF ~jobs[j].present
       THEN /\ response' = HttpError("download", j, 404, "Job not found")
            /\ handler' = handler
       ELSE IF jobs[j].status # JobStatus_COMPLETED
       THEN /\ response' = HttpError("download", j, 400,
                                     "Job not completed yet")
            /\ handler' = handler
       ELSE /\ handler' = [kind |-> "download_path", job |-> j]
            /\ NoResponse
    /\ UNCHANGED <<jobs, disk, proc>>
    /\ ServerFrame

(* srt_path = job.get("srt_path")                                          *)
(* if not srt_path or not os.path.exists(srt_path): 404                    *)
DownloadPath ==
    /\ handler.kind = "download_path"
    /\ LET job == jobs[handler.job]
       IN  IF ~job.srt_path.some \/ job.srt_path.val \notin disk
           THEN /\ response' = HttpError("download", handler.job, 404,
                                         "SRT file not found")
                /\ handler' = [kind |-> "idle"]
           ELSE /\ NoResponse
                /\ handler' = [kind |-> "download_serve", job |-> handler.job,
                               srt_path |-> job.srt_path.val]
    /\ UNCHANGED <<jobs, disk, proc>>
    /\ ServerFrame

(* filename = job.get("filename", "transcript.srt")                        *)
(* return FileResponse(srt_path, filename=filename)                        *)
DownloadServe ==
    /\ handler.kind = "download_serve"
    /\ response' = [req |-> "download", job |-> handler.job, code |-> 200,
                    path |-> handler.srt_path,
                    filename |-> FilenameOf(jobs[handler.job])]
    /\ handler' = [kind |-> "idle"]
    /\ UNCHANGED <<jobs, disk, proc>>
    /\ ServerFrame

NextServer ==
    \/ \E j \in JobIds : Upload(j) \/ Worker(j)
    \/ \E j \in JobIds : StatusRead(j) \/ DownloadCheck(j)
    \/ StatusReadProgress
    \/ StatusReadError
    \/ StatusRespond
    \/ DownloadPath
    \/ DownloadServe

SpecServer == InitServer /\ [][NextServer]_vars

----------------------------------------------------------------------------
(* main.py with --backend faster: transcribe, convert, split, save.        *)

(* transcriber.py: the words of a segment, stripped, the blank ones left   *)
(* out.                                                                    *)
RECURSIVE StrippedWords(_)
StrippedWords(words) ==
    IF words = <<>> THEN <<>>
    ELSE IF strip(Head(words).word) = <<>> THEN StrippedWords(Tail(words))
    ELSE << [start |-> Head(words).start, end |-> Head(words).end,
             word |-> strip(Head(words).word)] >>
         \o StrippedWords(Tail(words))

(* transcriber.py: seg_data of an engine segment; words is None while the  *)
(* key "words" is missing.                                                 *)
SegData(segment, word_timestamps) ==
    [start |-> segment.start, end |-> segment.end,
     text |-> strip(segment.text),
     words |-> IF word_timestamps /\ Truthy(segment.words)
               THEN Some(StrippedWords(segment.words.val)) ELSE None]

(* transcriber.py: the dict transcribe returns with the faster backend;    *)
(* "language" is the engine's info.language, None if it has none.          *)
transcribe(engine, info_language, word_timestamps) ==
    [language |-> info_language,
     segments |-> [k \in 1..Len(engine) |->
                      SegData(engine[k], word_timestamps)]]

(* main.py: words = None; if seg.get("words"): words = [WordTimestamp...]  *)
ConvertSegment(seg) ==
    TranscriptSegment(
        seg.start, seg.end, strip(seg.text),
        IF Truthy(seg.words)
        THEN Some([i \in 1..Len(seg.words.val) |->
                      WordTimestamp(seg.words.val[i].start,
                                    seg.words.val[i].end,
                                    seg.words.val[i].word)])
        ELSE None)

ConvertSegments(result) ==
    [k \in 1..Len(result.segments) |-> ConvertSegment(result.segments[k])]

CliWordTexts == { <<" ", "b", "U+1680">>, <<"U+000B", "\t">> }

(* The engine returns up to MaxSegments segments with up to                *)
(* MaxWordsPerSegment words in all.                                        *)
CliShapes == { sh \in Shapes : ShapeWords(sh) <= MaxWordsPerSegment }

(* audio_extractor.py: AudioExtractor.VIDEO_EXTENSIONS                     *)
VIDEO_EXTENSIONS ==
    {".mp4", ".avi", ".mkv", ".mov", ".wmv", ".flv", ".webm", ".m4v"}

UpperCase ==
    << "A", "B", "C", "D", "E", "F", "G", "H", "I", "J", "K", "L", "M",
       "N", "O", "P", "Q", "R", "S", "T", "U", "V", "W", "X", "Y", "Z" >>
LowerCase ==
    << "a", "b", "c", "d", "e", "f", "g", "h", "i", "j", "k", "l", "m",
       "n", "o", "p", "q", "r", "s", "t", "u", "v", "w", "x", "y", "z" >>

(* str.lower() of a text of ASCII characters: A..Z become a..z, every      *)
(* other character stays.                                                  *)
RECURSIVE lower(_)
lower(txt) ==
    IF Len(txt) = 0 THEN ""
    ELSE IF Len(txt) = 1
    THEN IF \E k \in 1..Len(UpperCase) : UpperCase[k] = txt
         THEN LowerCase[CHOOSE k \in 1..Len(UpperCase) : UpperCase[k] = txt]
         ELSE txt
    ELSE lower(SubSeq(txt, 1, Len(txt) \div 2))
         \o lower(SubSeq(txt, Len(txt) \div 2 + 1, Len(txt)))

(* A path is given by its stem and its suffix.                             *)
(* extension = Path(file_path).suffix.lower()                              *)
(* return extension in self.VIDEO_EXTENSIONS                               *)
is_video_file(file_path) == lower(file_path.suffix) \in VIDEO_EXTENSIONS

PathStr(file_path) == file_path.stem \o file_path.suffix

(* main.py: get_output_paths with no --output-dir and no --output-name.    *)
get_output_paths(input_file) ==
    [json |-> input_file.stem \o ".json", srt |-> input_file.stem \o ".srt"]

(* The input files of the runs: two videos, one with its suffix in upper   *)
(* case, and an audio file.                                                *)
InputFiles ==
    { [stem |-> "clip", suffix |-> ".mp4"],
      [stem |-> "CLIP", suffix |-> ".MP4"],
      [stem |-> "talk", suffix |-> ".wav"] }

(* --format: one or more of json and srt, in the order given.              *)
FormatArgs == { <<"json", "srt">>, <<"srt", "json">>, <<"json">>, <<"srt">> }

(* info.language of the engine.                                            *)
InfoLanguages == { Some(<<"e", "n">>), None }

InitCli ==
    /\ pc = "start"
    /\ CoreIdle
    /\ ObjIdle
    /\ JsonIdle
    /\ SaveIdle
    /\ ServerIdle
    /\ \E sh \in CliShapes : \E flat \in [1..ShapeWords(sh) -> CliWordTexts] :
       \E wt \in BOOLEAN : \E mw \in 1..MaxWordsArg :
       \E file \in InputFiles : \E fmts \in FormatArgs :
           cli = [pc |-> "start", input_file |-> file,
                  engine |-> BuildSegments(sh, flat),
                  language |-> Some(<<"e", "n">>),
                  word_timestamps |-> wt, max_words |-> mw, format |-> fmts,
                  result |-> NotCalled, segments |-> <<>>, saved |-> 0,
                  exc |-> None, exit_code |-> None,
                  outputs |-> [path \in {get_output_paths(file).json,
                                          get_output_paths(file).srt}
                                 |-> None]]

CliFrame == UNCHANGED <<coreVars, objVars, jsonVars, saveVars, srvVars>>

(* e.stderr.decode() of a failed ffmpeg run: nothing, or its last line.    *)
FfmpegStderr == { "", "Invalid data found when processing input\n" }

(* What the calls up to the transcription raise:                           *)
(*   AudioExtractor()   RuntimeError when ffmpeg is not on the PATH        *)
(*   extract_audio      for a video, FileNotFoundError when the file is    *)
(*                      gone, RuntimeError with ffmpeg's stderr, or        *)
(*                      "Unknown error" when it wrote none                 *)
(*   transcribe         FileNotFoundError for an audio file that is gone,  *)
(*                      ModuleNotFoundError of the import in load_model,   *)
(*                      and whatever the engine raises, with or without a  *)
(*                      message                                            *)
CliErrors(input_file) ==
    { Raise("RuntimeError",
            "ffmpeg is not installed or not found in PATH. "
            \o "Please install ffmpeg to use audio extraction functionality.") }
    \cup (IF is_video_file(input_file)
          THEN { Raise("FileNotFoundError",
                       "Input file not found: " \o PathStr(input_file)) }
               \cup { Raise("RuntimeError",
                            "Failed to extract audio: "
                            \o (IF err = "" THEN "Unknown error" ELSE err)) :
                        err \in FfmpegStderr }
          ELSE { Raise("FileNotFoundError",
                       "Audio file not found: " \o PathStr(input_file)) })
    \cup { Raise("ModuleNotFoundError", "No module named 'faster_whisper'"),
           Raise("RuntimeError", "CUDA failed with error out of memory"),
           Raise("RuntimeError", "") }

(* extractor = AudioExtractor(); ...; transcriber = Transcriber(...)       *)
(* result = transcriber.transcribe(audio_path, language=args.language)     *)
CliTranscribe ==
    /\ cli.pc = "start"
    /\ \E info_language \in InfoLanguages :
           cli' = [cli EXCEPT
                      !.pc = "transcribed",
                      !.result = Return(transcribe(cli.engine, info_language,
                                                   cli.word_timestamps))]
    /\ CliFrame

(* One of these calls raises:                                              *)
(* except Exception as e: print(...); sys.exit(1)                          *)
CliRaise ==
    /\ cli.pc = "start"
    /\ \E e \in CliErrors(cli.input_file) :
           cli' = [cli EXCEPT !.pc = "exit", !.exc = Some(e),
                              !.exit_code = Some(1)]
    /\ CliFrame

(* for seg in result.get("segments", []): ... segments.append(...)         *)
CliConvert ==
    /\ cli.pc = "transcribed"
    /\ cli' = [cli EXCEPT !.pc = "converted",
                          !.segments = ConvertSegments(cli.result.value)]
    /\ CliFrame

(* if args.word_timestamps: segments = split_segments_by_max_words(...);   *)
(* an exception ends the run: except Exception: ...; sys.exit(1)           *)
CliSplit ==
    /\ cli.pc = "converted"
    /\ LET r == split_segments_by_max_words(cli.segments, cli.max_words)
       IN  cli' = IF ~cli.word_timestamps THEN [cli EXCEPT !.pc = "split"]
                  ELSE IF r.kind = "raise"
                  THEN [cli EXCEPT !.pc = "exit", !.exc = Some(r),
                                   !.exit_code = Some(1)]
                  ELSE [cli EXCEPT !.pc = "split", !.segments = r.value]
    /\ CliFrame

(* transcript = Transcript(segments=segments,                              *)
(*                         language=result.get("language"))                *)
CliTranscript == Transcript(cli.segments, cli.result.value.language)

(* The bytes save_to_file writes for format fmt of args.format:            *)
(* output_format = OutputFormat.JSON if fmt == "json" else OutputFormat.SRT *)
CliContent(fmt) ==
    Utf8Encode(format(CliTranscript,
                      IF fmt = "json" THEN OutputFormat_JSON
                      ELSE OutputFormat_SRT).value)

(* What a failing save_to_file raises and leaves of the file: open()       *)
(* raises and the file is as it was, or the write raises after open() cut  *)
(* the file and `cut` of the bytes have reached it.                        *)
SaveFailures(output_path, old, bytes) ==
    { [exc |-> Raise("PermissionError",
                     "[Errno 13] Permission denied: '" \o output_path \o "'"),
       file |-> old] }
    \cup { [exc |-> Raise("OSError", "[Errno 28] No space left on device"),
            file |-> Some(SubSeq(bytes, 1, cut))] :
             cut \in {0, Len(bytes) \div 2} }

(* for fmt in args.format: a turn of the loop whose save_to_file returns.  *)
CliSave ==
    /\ cli.pc = "split"
    /\ cli.saved < Len(cli.format)
    /\ LET fmt == cli.format[cli.saved + 1]
           output_path == get_output_paths(cli.input_file)[fmt]
       IN  cli' = [cli EXCEPT !.saved = @ + 1,
                              !.outputs[output_path] = Some(CliContent(fmt))]
    /\ CliFrame

(* A turn of the loop whose save_to_file raises:                           *)
(* except Exception as e: print(...); sys.exit(1)                          *)
CliSaveRaise ==
    /\ cli.pc = "split"
    /\ cli.saved < Len(cli.format)
    /\ LET fmt == cli.format[cli.saved + 1]
           output_path == get_output_paths(cli.input_file)[fmt]
       IN  \E f \in SaveFailures(output_path, cli.outputs[output_path],
                                 CliContent(fmt)) :
               cli' = [cli EXCEPT !.pc = "exit", !.exc = Some(f.exc),
                                  !.exit_code = Some(1),
                                  !.outputs[output_path] = f.file]
    /\ CliFrame

(* The loop is over: main returns and the exit code is 0.                  *)
CliExit ==
    /\ cli.pc = "split"
    /\ cli.saved = Len(cli.format)
    /\ cli' = [cli EXCEPT !.pc = "exit", !.exit_code = Some(0)]
    /\ CliFrame

NextCli ==
    \/ CliTranscribe \/ CliRaise \/ CliConvert \/ CliSplit
    \/ CliSave \/ CliSaveRaise \/ CliExit

SpecCli == InitCli /\ [][NextCli]_vars

----------------------------------------------------------------------------
(* Properties of the splitter.                                             *)

SplitReturned == pc # "start" /\ split_out.kind = "return"
Out == split_out.value

(* w is one of the words of the input segment seg.                         *)
WordIn(w, seg) ==
    seg.words.some /\ \E i \in 1..Len(seg.words.val) : seg.words.val[i] = w

(* The output segment o is made of words of input segment j only.  Input   *)
(* words differ in their times, so a word has one place in the input.      *)
From(o, j) ==
    /\ o.words.some
    /\ o.words.val # <<>>
    /\ \A i \in 1..Len(o.words.val) : WordIn(o.words.val[i], segments[j])

(* A word whose text has a character that is not whitespace.               *)
HasText(w) == \E i \in 1..Len(w.word) : w.word[i] \notin Whitespace
Kept(words) == SelectSeq(words, HasText)

(* The words of the output segments that come from input segment j.        *)
RECURSIVE ConcatFrom(_, _)
ConcatFrom(out, j) ==
    IF out = <<>> THEN <<>>
    ELSE (IF From(Head(out), j) THEN Head(out).words.val ELSE <<>>)
         \o ConcatFrom(Tail(out), j)

(* C1: when the splitter returns, every output segment has at most         *)
(* max_words words, and an output segment followed by another one from the *)
(* same input segment has exactly max_words words.                         *)
C1_WordCountBound ==
    SplitReturned =>
        \A k \in 1..Len(Out) :
            /\ Len(Out[k].words.val) <= max_words
            /\ (k < Len(Out)
                /\ \E j \in 1..Len(segments) :
                       From(Out[k], j) /\ From(Out[k + 1], j))
               => Len(Out[k].words.val) = max_words

(* A three-word segment split by two: a full chunk and a remainder.        *)
C1_Witness ==
    /\ pc = "split" /\ split_out.kind = "return" /\ max_words = 2
    /\ \E k \in 1..(Len(Out) - 1) : \E j \in 1..Len(segments) :
           /\ From(Out[k], j) /\ From(Out[k + 1], j)
           /\ Len(Out[k].words.val) = 2
           /\ Len(Out[k + 1].words.val) = 1

(* C2: when the splitter returns, every output segment is made of words of *)
(* one input segment, the output follows the order of the input segments,  *)
(* and the words of the output segments that come from an input segment,   *)
(* put end to end, are that segment's words with non-blank text, unchanged *)
(* and in their order.                                                     *)
C2_OrderPreservation ==
    SplitReturned =>
        /\ \A k \in 1..Len(Out) : \E j \in 1..Len(segments) : From(Out[k], j)
        /\ \A k \in 1..(Len(Out) - 1) : \A j1, j2 \in 1..Len(segments) :
               From(Out[k], j1) /\ From(Out[k + 1], j2) => j1 <= j2
        /\ \A j \in 1..Len(segments) :
               ConcatFrom(Out, j) = Kept(segments[j].words.val)

(* Two input segments, one split in two chunks, a blank word filtered out. *)
C2_Witness ==
    /\ pc = "split" /\ split_out.kind = "return"
    /\ Len(segments) = 2
    /\ \E k \in 1..(Len(Out) - 1) :
           From(Out[k], 1) /\ From(Out[k + 1], 1)
    /\ \E k \in 1..Len(Out) : From(Out[k], 2)
    /\ \E j \in 1..2 : Kept(segments[j].words.val) # segments[j].words.val

(* The words a,b,c of the scenario, half a second each.                    *)
ScenarioSegments ==
    << TranscriptSegment(0, 3 * WordStep, <<"a", "b", "c">>,
         Some(<< WordTimestamp(0, WordStep, <<"a">>),
                 WordTimestamp(WordStep, 2 * WordStep, <<"b">>),
                 WordTimestamp(2 * WordStep, 3 * WordStep, <<"c">>) >>)) >>

(* The texts of the words, trimmed, with one space between them.           *)
RECURSIVE SpacedText(_)
SpacedText(words) ==
    IF words = <<>> THEN <<>>
    ELSE IF Len(words) = 1 THEN strip(words[1].word)
    ELSE strip(words[1].word) \o <<" ">> \o SpacedText(Tail(words))

(* C3: every segment the splitter returns has at least one word, starts at *)
(* its first word's start, ends at its last word's end, and its text is    *)
(* its words' trimmed texts with exactly one space between them; the       *)
(* scenario a,b,c with max_words = 2 gives 'a b' [0.0,1.0], 'c' [1.0,1.5]. *)
C3_ChunkFields ==
    SplitReturned =>
        /\ \A k \in 1..Len(Out) :
               LET o == Out[k] IN
               /\ o.words.some
               /\ o.words.val # <<>>
               /\ o.start = o.words.val[1].start
               /\ o.end = o.words.val[Len(o.words.val)].end
               /\ o.text = SpacedText(o.words.val)
        /\ (segments = ScenarioSegments /\ max_words = 2) =>
               /\ Len(Out) = 2
               /\ Out[1].start = 0 /\ Out[1].end = TicksPerSecond
               /\ Out[1].text = <<"a", " ", "b">>
               /\ Out[2].start = TicksPerSecond
               /\ 2 * Out[2].end = 3 * TicksPerSecond
               /\ Out[2].text = <<"c">>

(* The scenario has been split, and so has a chunk of padded words.        *)
C3_Witness ==
    /\ pc = "split" /\ split_out.kind = "return"
    /\ \/ segments = ScenarioSegments /\ max_words = 2 /\ Len(Out) = 2
       \/ \E k \in 1..Len(Out) :
              /\ Len(Out[k].words.val) = 2
              /\ \E i \in 1..2 :
                     Out[k].words.val[i].word # strip(Out[k].words.val[i].word)

(* An input segment whose words are present and hold no non-blank text.    *)
BlankSegment(seg) == seg.words.some /\ Kept(seg.words.val) = <<>>

(* C4: with max_words > 0 and words present on every segment, the splitter *)
(* returns whether or not a segment has only blank words or an empty word  *)
(* list; such a segment has no output segment and the others are split.    *)
C4_BlankSegmentDropped ==
    ( /\ pc # "start"
      /\ max_words > 0
      /\ \A j \in 1..Len(segments) : segments[j].words.some
      /\ \E j \in 1..Len(segments) : BlankSegment(segments[j]) )
    => /\ split_out.kind = "return"
       /\ \A j \in 1..Len(segments) :
              ConcatFrom(Out, j) = Kept(segments[j].words.val)

(* C5: with max_words > 0 and a segment whose words are absent, at any     *)
(* position, the call raises the missing-word-timestamps error and returns *)
(* no segments.                                                            *)
C5_MissingWordsFatal ==
    ( /\ pc # "start"
      /\ max_words > 0
      /\ \E j \in 1..Len(segments) : ~segments[j].words.some )
    => split_out = Raise("ValueError", ValueErrorNoWords)

(* The call raised although the first segment had words to chunk.          *)
C5_Witness ==
    /\ pc = "split"
    /\ max_words > 0
    /\ Len(segments) = 2
    /\ segments[1].words.some /\ Kept(segments[1].words.val) # <<>>
    /\ ~segments[2].words.some
    /\ split_out.kind = "raise"

(* C6: with max_words <= 0 the call raises the invalid-argument error,     *)
(* whatever the segment list is.                                           *)
C6_BadMaxWordsFirst ==
    (pc # "start" /\ max_words <= 0)
    => split_out = Raise("ValueError", ValueErrorMaxWords)

(* max_words = 0 on a list with a segment without word data.               *)
C6_Witness ==
    /\ pc = "split"
    /\ max_words = 0
    /\ \E j \in 1..Len(segments) : ~segments[j].words.some
    /\ split_out.kind = "raise"

(* C10: splitting what the splitter returned, with the same max_words,     *)
(* returns as many segments, each with the same start, end, text and words.*)
C10_Idempotent ==
    pc = "resplit" =>
        /\ resplit_out.kind = "return"
        /\ Len(resplit_out.value) = Len(Out)
        /\ \A k \in 1..Len(Out) :
               /\ resplit_out.value[k].start = Out[k].start
               /\ resplit_out.value[k].end = Out[k].end
               /\ resplit_out.value[k].text = Out[k].text
               /\ resplit_out.value[k].words = Out[k].words

(* The second call ran on an output of several chunks, after a drop.       *)
C10_Witness ==
    /\ pc = "resplit"
    /\ Len(Out) >= 3
    /\ \E j \in 1..Len(segments) : BlankSegment(segments[j])
    /\ \E j \in 1..Len(segments) :
           Kept(segments[j].words.val) # segments[j].words.val

----------------------------------------------------------------------------
(* Properties of the formatter and of the dict form.                       *)

NL == <<"\n">>

(* The text of the k-th block without the newline that ends its text line. *)
BlockHead(k, seg) ==
    Decimal(k) \o NL \o _seconds_to_srt_time(TickFloat(seg.start)) \o Arrow
    \o _seconds_to_srt_time(TickFloat(seg.end)) \o NL \o seg.text

(* '<index>\n<start> --> <end>\n<text>\n\n' for segments k..n, end to end. *)
RECURSIVE FullBlocks(_, _)
FullBlocks(segs, k) ==
    IF k > Len(segs) THEN <<>>
    ELSE BlockHead(k, segs[k]) \o NL \o NL \o FullBlocks(segs, k + 1)

(* C7 as stated: the output is the blocks '<index>\n<start> --> <end>\n    *)
(* <text>\n\n' end to end, the k-th with index k, the last one included;   *)
(* no segments give the empty string.                                      *)
C7_Original ==
    srt_out.kind = "return" =>
        srt_out.value = FullBlocks(transcript.segments, 1)

(* C7 amended: the output is the blocks '<index>\n<start> --> <end>\n      *)
(* <text>\n' in segment order, the k-th with index k, with one blank line  *)
(* between two blocks and none after the last: the output and one more     *)
(* newline make the blocks of the original statement; no segments give the *)
(* empty string.                                                           *)
C7_SrtBlocks ==
    srt_out.kind = "return" =>
        IF transcript.segments = <<>>
        THEN srt_out.value = <<>>
        ELSE srt_out.value \o NL = FullBlocks(transcript.segments, 1)

(* A transcript of two or more segments has been formatted.                *)
C7_Witness ==
    /\ srt_out.kind = "return"
    /\ Len(transcript.segments) >= 2
    /\ transcript.segments[1].text # <<>>
    /\ srt_out.value # <<>>

(* C9: in the dict form a segment has the key 'words' exactly when its     *)
(* words are not absent, an empty list giving an empty list; the           *)
(* transcript always has the key 'language', with the transcript's value,  *)
(* None when undetected; the segments keep their order.                    *)
C9_DictKeys ==
    dict_out.kind = "return" =>
        LET d == dict_out.value IN
        /\ DOMAIN d = {"language", "segments"}
        /\ d.language = transcript.language
        /\ Len(d.segments) = Len(transcript.segments)
        /\ \A k \in 1..Len(transcript.segments) :
               LET seg == transcript.segments[k]
                   ds == d.segments[k]
               IN  /\ ("words" \in DOMAIN ds) <=> seg.words.some
                   /\ {"start", "end", "text"} \subseteq DOMAIN ds
                   /\ ds.start = seg.start /\ ds.end = seg.end
                   /\ ds.text = seg.text
                   /\ seg.words.some =>
                          /\ Len(ds.words) = Len(seg.words.val)
                          /\ \A i \in 1..Len(seg.words.val) :
                                 /\ ds.words[i].start = seg.words.val[i].start
                                 /\ ds.words[i].end = seg.words.val[i].end
                                 /\ ds.words[i].word = seg.words.val[i].word

(* The dict of a transcript without language, with a segment without       *)
(* words, one with an empty word list and one with words.                  *)
C9_Witness ==
    /\ dict_out.kind = "return"
    /\ transcript.language = None
    /\ \E k \in 1..Len(transcript.segments) :
           ~transcript.segments[k].words.some
    /\ \E k \in 1..Len(transcript.segments) :
           /\ transcript.segments[k].words.some
           /\ transcript.segments[k].words.val = <<>>
           /\ dict_out.value.segments[k].words = <<>>

----------------------------------------------------------------------------
(* Properties of the time conversion.                                      *)

IsDigit(c) == \E d \in 1..10 : Digits[d] = c
DigitValue(c) == (CHOOSE d \in 1..10 : Digits[d] = c) - 1

(* The number a string of decimal digits writes; -1 if it is not one.      *)
RECURSIVE Value(_)
Value(ds) ==
    IF ds = <<>> \/ ~IsDigit(ds[Len(ds)]) THEN -1
    ELSE IF Len(ds) = 1 THEN DigitValue(ds[1])
    ELSE LET v == Value(SubSeq(ds, 1, Len(ds) - 1))
         IN  IF v < 0 THEN -1 ELSE 10 * v + DigitValue(ds[Len(ds)])

(* The binary fraction 0.bits is at least num / den (num <= den).          *)
AtLeast(bits, num, den) ==
    IF num = den THEN FALSE
    ELSE LET e == BinaryExpansion(num, den, Len(bits))
             first == { k \in 1..Len(bits) : bits[k] # e.bits[k] }
         IN  IF first = {} THEN e.rest = 0
             ELSE bits[CHOOSE k \in first : \A j \in first : k <= j] = 1

(* 0.bits + 2^-MantissaDigits is at least num / den.                       *)
AtLeastNear(bits, num, den) ==
    LET wide == bits \o [i \in 1..(MantissaDigits - Len(bits)) |-> 0]
        next == Increment(SubSeq(wide, 1, MantissaDigits))
    IN  \/ next.carry = 1
        \/ AtLeast(next.bits \o SubSeq(wide, MantissaDigits + 1, Len(wide)),
                   num, den)

(* The hour is floor(s / 3600), the minute and the second are in 0..59,    *)
(* the millisecond in 0..999, and hour, minute and second are those of     *)
(* the whole seconds of the time: nothing is carried into the second.      *)
FieldsInRange(r) ==
    /\ r.hours * 3600 <= seconds.whole
    /\ seconds.whole < (r.hours + 1) * 3600
    /\ r.minutes \in 0..59
    /\ r.secs \in 0..59
    /\ r.milliseconds \in 0..999
    /\ r.hours * 3600 + r.minutes * 60 + r.secs = seconds.whole

(* The millisecond is that of the whole milliseconds of the time, the rest *)
(* of the millisecond dropped.                                             *)
Truncated(r) ==
    /\ AtLeast(seconds.frac, r.milliseconds, 1000)
    /\ ~AtLeast(seconds.frac, r.milliseconds + 1, 1000)

(* The millisecond is one more than that: the time is below the whole      *)
(* millisecond written, by no more than 2^-53 s.                           *)
OneAbove(r) ==
    /\ r.milliseconds >= 1
    /\ AtLeast(seconds.frac, r.milliseconds - 1, 1000)
    /\ ~AtLeast(seconds.frac, r.milliseconds, 1000)
    /\ AtLeastNear(seconds.frac, r.milliseconds, 1000)

(* The text is hh:MM:SS,mmm, the hour written with hourDigits digits.      *)
WrittenAs(r, hourDigits) ==
    LET v == r.value IN
    /\ Len(v) = hourDigits + 10
    /\ Value(SubSeq(v, 1, hourDigits)) = r.hours
    /\ v[hourDigits + 1] = ":"
    /\ Value(SubSeq(v, hourDigits + 2, hourDigits + 3)) = r.minutes
    /\ v[hourDigits + 4] = ":"
    /\ Value(SubSeq(v, hourDigits + 5, hourDigits + 6)) = r.secs
    /\ v[hourDigits + 7] = ","
    /\ Value(SubSeq(v, hourDigits + 8, hourDigits + 10)) = r.milliseconds

(* 59.9996 gives 00:00:59,999 and 3661.9994 gives 01:01:01,999.            *)
TruncationExamples ==
    /\ seconds = DecimalFloat(59, 9996, 4) =>
           srt_time.value =
               <<"0", "0", ":", "0", "0", ":", "5", "9", ",", "9", "9", "9">>
    /\ seconds = DecimalFloat(3661, 9994, 4) =>
           srt_time.value =
               <<"0", "1", ":", "0", "1", ":", "0", "1", ",", "9", "9", "9">>

(* The two parts of C8 as stated that the code does not meet: the          *)
(* millisecond is never above the truncated one, and HH has 2 digits.      *)
C8_NeverRoundedUp == srt_time.kind = "return" => Truncated(srt_time)
C8_TwoHourDigits == srt_time.kind = "return" => WrittenAs(srt_time, 2)

(* C8 as stated: for every time >= 0 the fields are those of the whole     *)
(* milliseconds of the time, truncated, and the text has HH, MM, SS of 2   *)
(* digits and mmm of 3 digits.                                             *)
C8_Original ==
    srt_time.kind = "return" =>
        /\ FieldsInRange(srt_time)
        /\ Truncated(srt_time)
        /\ WrittenAs(srt_time, 2)
        /\ TruncationExamples

(* C8 amended: for every time >= 0 the hour is floor(s/3600), the minute   *)
(* and the second are in 0..59 and the millisecond in 0..999, nothing is   *)
(* carried into the second or the minute, and the millisecond is that of   *)
(* the whole milliseconds of the time, truncated, or, for a time no more   *)
(* than 2^-53 s below a whole millisecond, that millisecond; it is the     *)
(* truncated one for every whole number of ticks.  59.9996 and 3661.9994   *)
(* give 00:00:59,999 and 01:01:01,999.  MM and SS are written with 2       *)
(* digits, mmm with 3 digits, and HH with 2 digits below 100 hours and     *)
(* with all its digits, 3 or more, from 100 hours on.                      *)
C8_TimeFields ==
    srt_time.kind = "return" =>
        /\ FieldsInRange(srt_time)
        /\ Truncated(srt_time) \/ OneAbove(srt_time)
        /\ Len(seconds.frac) < BitLength(TicksPerSecond) =>
               Truncated(srt_time)
        /\ WrittenAs(srt_time,
                     IF srt_time.hours < 100 THEN 2
                     ELSE Len(Decimal(srt_time.hours)))
        /\ srt_time.hours >= 100 => Len(srt_time.value) >= 13
        /\ TruncationExamples

(* The float of 0.285, which is below 0.285, has been converted: the text  *)
(* ends in 285.                                                            *)
C8_Witness ==
    /\ srt_time.kind = "return"
    /\ seconds = DecimalFloat(0, 285, 3)
    /\ ~AtLeast(seconds.frac, 285, 1000)
    /\ srt_time.milliseconds = 285
    /\ srt_time.value
           = <<"0", "0", ":", "0", "0", ":", "0", "0", ",", "2", "8", "5">>

----------------------------------------------------------------------------
(* Properties of the splitter on objects.                                  *)

(* The call on objects computes what the function computes on values.      *)
SplitCallAgrees ==
    pc = "split" =>
        (IF obj_out.kind = "return"
         THEN Return(SegmentsAt(heap, obj_out.value)) ELSE obj_out)
        = split_segments_by_max_words(SegmentsAt(heap, obj_segments),
                                      max_words)

(* C11: a call of the splitter, returning or raising, leaves every object  *)
(* that existed before it as it was: the list `segments` with its items,   *)
(* every input segment with its start, end, text and words, every words    *)
(* list with its items in their order, every word with its fields.  (The   *)
(* call starts from a heap that holds the objects of the argument only.)   *)
C11_InputsUnchanged ==
    [][ /\ Len(heap') >= Len(heap)
        /\ \A a \in 1..Len(heap) : heap'[a] = heap[a]
        /\ obj_segments' = obj_segments ]_vars

(* The call has returned two or more chunks, cut from a segment with a     *)
(* padded word and a blank word that the filter left out.                  *)
C11_Witness ==
    /\ pc = "split"
    /\ obj_out.kind = "return"
    /\ Len(heap[obj_out.value].items) >= 2
    /\ \E s \in 1..Len(heap[obj_segments].items) :
           LET words == heap[heap[heap[obj_segments].items[s]].words.val].items
           IN  /\ \E i \in 1..Len(words) : ~NonBlank(heap[words[i]])
               /\ \E i \in 1..Len(words) :
                      /\ NonBlank(heap[words[i]])
                      /\ heap[words[i]].word # strip(heap[words[i]].word)

(* The input segments and the returned segments, by address.               *)
InputSegments == heap[obj_segments].items
OutputSegments == heap[obj_out.value].items

(* The word objects held by the words list of the segment at address s.    *)
Held(s) ==
    IF heap[s].words.some
    THEN { heap[heap[s].words.val].items[i] :
             i \in 1..Len(heap[heap[s].words.val].items) }
    ELSE {}

(* C12 as stated: after the call no word object of an output segment is a  *)
(* word object of an input segment or of another output segment.           *)
C12_Original ==
    (pc = "split" /\ obj_out.kind = "return") =>
        /\ \A k \in 1..Len(OutputSegments) : \A j \in 1..Len(InputSegments) :
               Held(OutputSegments[k]) \cap Held(InputSegments[j]) = {}
        /\ \A k1, k2 \in 1..Len(OutputSegments) :
               k1 # k2 =>
                   Held(OutputSegments[k1]) \cap Held(OutputSegments[k2]) = {}

(* C12 amended: after the call no word object is in the words of two       *)
(* output segments, nor twice in one; every word object of an output       *)
(* segment is an object of exactly one input segment, the one the chunk    *)
(* was cut from.                                                           *)
C12_SharedWithInputOnly ==
    (pc = "split" /\ obj_out.kind = "return") =>
        /\ \A k1, k2 \in 1..Len(OutputSegments) :
               k1 # k2 =>
                   Held(OutputSegments[k1]) \cap Held(OutputSegments[k2]) = {}
        /\ \A k \in 1..Len(OutputSegments) :
               LET ws == heap[heap[OutputSegments[k]].words.val].items IN
               /\ Cardinality(Held(OutputSegments[k])) = Len(ws)
               /\ \E j \in 1..Len(InputSegments) :
                      /\ Held(OutputSegments[k]) \subseteq Held(InputSegments[j])
                      /\ \A j2 \in 1..Len(InputSegments) :
                             j2 # j => Held(OutputSegments[k])
                                         \cap Held(InputSegments[j2]) = {}

(* Two input segments have been split into three or more output segments.  *)
C12_Witness ==
    /\ pc = "split"
    /\ obj_out.kind = "return"
    /\ Len(InputSegments) = 2
    /\ Len(OutputSegments) >= 3

----------------------------------------------------------------------------
(* Properties of the JSON form.                                            *)

(* The member of a JSON object with key k, as a sequence of 0 or 1 values. *)
Member(o, k) ==
    SelectSeq([i \in 1..Len(o.obj) |-> o.obj[i]], LAMBDA m : m[1] = k)

(* The scenario: no language, one segment "hi" from 0.0 to 0.5 without    *)
(* word data, is written with a null language and no key 'words'.          *)
ScenarioTranscript ==
    Transcript(<< TranscriptSegment(0, TicksPerSecond \div 2, <<"h", "i">>,
                                    None) >>, None)

ScenarioJson ==
         << "{", "\n", " ", " ", "\"", "l", "a", "n", "g", "u", "a", "g", "e",
            "\"", ":", " ", "n", "u", "l", "l", ",", "\n", " ", " ", "\"",
            "s", "e", "g", "m", "e", "n", "t", "s", "\"", ":", " ", "[", "\n",
            " ", " ", " ", " ", "{", "\n",
            " ", " ", " ", " ", " ", " ", "\"", "s", "t", "a", "r", "t", "\"",
            ":", " ", "0", ".", "0", ",", "\n",
            " ", " ", " ", " ", " ", " ", "\"", "e", "n", "d", "\"",
            ":", " ", "0", ".", "5", ",", "\n",
            " ", " ", " ", " ", " ", " ", "\"", "t", "e", "x", "t", "\"",
            ":", " ", "\"", "h", "i", "\"", "\n",
            " ", " ", " ", " ", "}", "\n", " ", " ", "]", "\n", "}" >>

(* C15: the value read from the text of format_json(t) is t.to_dict(): the *)
(* same language, null when undetected, and the same segments with the     *)
(* same start, end, text and words, a segment without word data having no  *)
(* key 'words'.                                                            *)
C15_JsonRoundTrip ==
    pc = "parsed" =>
        /\ json_parsed.kind = "return"
        /\ json_parsed.value = TranscriptDictJson(Transcript_to_dict(transcript))
        /\ LET segs == Member(json_parsed.value, KeySegments)[1][2].arr IN
           /\ Len(segs) = Len(transcript.segments)
           /\ \A k \in 1..Len(segs) :
                  /\ (Member(segs[k], KeyWords) # <<>>)
                         <=> transcript.segments[k].words.some
                  /\ Member(segs[k], KeyText)[1][2]
                         = JStr(transcript.segments[k].text)
                  /\ Member(segs[k], KeyStart)[1][2]
                         = JNum(transcript.segments[k].start)
        /\ Member(json_parsed.value, KeyLanguage)[1][2]
               = (IF transcript.language.some
                  THEN JStr(transcript.language.val) ELSE JNull)
        /\ transcript = ScenarioTranscript => json_out.value = ScenarioJson

(* A text with a quote, a backslash and a backspace has been written and   *)
(* read back, at a time whose repr is rounded, in a transcript that also   *)
(* has a segment without word data.                                        *)
C15_Witness ==
    /\ pc = "parsed"
    /\ json_parsed.kind = "return"
    /\ json_parsed.value = TranscriptDictJson(Transcript_to_dict(transcript))
    /\ \E k \in 1..Len(transcript.segments) :
           ~transcript.segments[k].words.some
    /\ \E k \in 1..Len(transcript.segments) :
           /\ transcript.segments[k].words.some
           /\ \E i \in 1..Len(transcript.segments[k].text) :
                  transcript.segments[k].text[i] = "\""
           /\ \E i \in 1..Len(transcript.segments[k].text) :
                  transcript.segments[k].text[i] = "U+0008"
           /\ Len(FloatRepr(transcript.segments[k].start))
                  < Len(Decimal(transcript.segments[k].start
                                    \div TicksPerSecond)) + 1 + DecimalPlaces
           /\ transcript.segments[k].start % TicksPerSecond = 1

----------------------------------------------------------------------------
(* Properties of save_to_file.                                             *)

Supported(s) ==
    savers[s].output_format \in {OutputFormat_JSON, OutputFormat_SRT}

AloneOnPath(s) ==
    \A t \in Savers \ {s} : savers[t].output_path # savers[s].output_path

(* C13: a save_to_file call whose format selector is neither JSON nor SRT  *)
(* ends in its first step with the unsupported-format ValueError, a step   *)
(* that changes no file and opens none, and does nothing afterwards: the   *)
(* file at its path, if no other call writes there, is as it was before,   *)
(* with its old content or still missing.                                  *)
C13_UnsupportedLeavesFile ==
    /\ [](\A s \in DOMAIN savers :
              savers[s].pc = "raised" =>
                  /\ ~Supported(s)
                  /\ savers[s].result
                         = ValueErrorFormat(savers[s].output_format)
                  /\ s \notin handles
                  /\ AloneOnPath(s) =>
                         files[savers[s].output_path]
                             = InitialFiles[savers[s].output_path])
    /\ [][\A s \in DOMAIN savers :
              /\ (~Supported(s) /\ savers'[s] # savers[s]) =>
                     /\ savers[s].pc = "call"
                     /\ savers'[s].pc = "raised"
                     /\ files' = files
                     /\ handles' = handles
              /\ savers[s].pc = "raised" => savers'[s] = savers[s]]_vars

(* Two calls with an unsupported selector have failed, one at a path that  *)
(* holds a file and one at a path that holds none.                         *)
C13_Witness ==
    \E s, t \in DOMAIN savers :
        /\ savers[s].pc = "raised" /\ savers[t].pc = "raised"
        /\ files[savers[s].output_path] = Some(OldContent)
        /\ files[savers[t].output_path] = None

AllSaved == \A s \in DOMAIN savers : savers[s].pc \in {"returned", "raised"}

(* C14: in every interleaving of the calls' steps, a call that has         *)
(* returned and is the only one with its output path has left exactly the  *)
(* text of its own transcript in its own format at that path and holds no  *)
(* file object; when all calls are over no file object is open.            *)
C14_DistinctPathsIsolated ==
    /\ \A s \in DOMAIN savers :
           (savers[s].pc = "returned" /\ AloneOnPath(s)) =>
               /\ files[savers[s].output_path]
                      = Some(EncodedCall[s][savers[s].output_format])
               /\ s \notin handles
    /\ AllSaved => handles = {}

(* Two calls, one JSON and one SRT, have returned with different paths,    *)
(* one of which held a file before.                                        *)
C14_Witness ==
    /\ AllSaved
    /\ \E s, t \in DOMAIN savers :
           /\ savers[s].pc = "returned" /\ savers[t].pc = "returned"
           /\ savers[s].output_path # savers[t].output_path
           /\ savers[s].output_format = OutputFormat_JSON
           /\ savers[t].output_format = OutputFormat_SRT
           /\ InitialFiles[savers[t].output_path] = Some(OldContent)
           /\ files[savers[t].output_path] # Some(OldContent)

----------------------------------------------------------------------------
(* Properties of the server.                                               *)

(* C16: a request that sees a job as COMPLETED finds its srt_path and      *)
(* filename recorded: no /download answers 404 'SRT file not found' and no *)
(* /status reports the fallback filename, however the worker and the       *)
(* handlers interleave.                                                    *)
C16_CompletedHasPath ==
    /\ ~(response.req = "download" /\ response.code = 404
           /\ response.detail = "SRT file not found")
    /\ ~(response.req = "status" /\ response.code = 200
           /\ response.filename = Some(FallbackFilename))

(* C18: when the processing of an uploaded video is over and no os.remove  *)
(* of the worker has failed, neither the uploaded file nor the audio file  *)
(* extracted from it is on disk.                                           *)
C18_NoFilesLeft ==
    \A j \in DOMAIN proc :
        (proc[j].pc = "done" /\ proc[j].is_video
           /\ proc[j].unremoved = {}) =>
            /\ jobs[j].status \in {JobStatus_COMPLETED, JobStatus_ERROR}
            /\ UploadFile(j) \notin disk
            /\ AudioFile(j) \notin disk

(* The changes of a job's entry that follow UPLOADING -> PROCESSING ->     *)
(* COMPLETED or ERROR, or UPLOADING -> ERROR.                              *)
StatusStepAllowed(old, new) ==
    IF ~old.present
    THEN ~new.present \/ new.status = JobStatus_UPLOADING
    ELSE /\ new.present
         /\ \/ new.status = old.status
            \/ /\ old.status = JobStatus_UPLOADING
               /\ new.status \in {JobStatus_PROCESSING, JobStatus_ERROR}
            \/ /\ old.status = JobStatus_PROCESSING
               /\ new.status \in {JobStatus_COMPLETED, JobStatus_ERROR}

(* C19: every step changes a job's status only forward along UPLOADING ->  *)
(* PROCESSING -> COMPLETED or ERROR, the step from UPLOADING to ERROR      *)
(* being the upload handler's; a COMPLETED or ERROR status stays; and a    *)
(* /download that served a file did so for a job that is COMPLETED.        *)
C19_StatusForward ==
    /\ [][\A j \in DOMAIN jobs :
              /\ StatusStepAllowed(jobs[j], jobs'[j])
              /\ (jobs[j].present /\ jobs[j].status = JobStatus_UPLOADING
                    /\ jobs'[j].status = JobStatus_ERROR) =>
                     proc[j].pc = "u_except"]_vars
    /\ []((response.req = "download" /\ response.code = 200) =>
              /\ jobs[response.job].status = JobStatus_COMPLETED
              /\ response.path = SrtFile(response.job))

(* A finished job is COMPLETED and its file has been served.               *)
C19_Witness ==
    /\ response.req = "download" /\ response.code = 200
    /\ proc[response.job].pc = "done"
    /\ jobs[response.job].status = JobStatus_COMPLETED
    /\ jobs[response.job].progress = 100

----------------------------------------------------------------------------
(* Properties of the command line pipeline.                                *)

(* An engine segment without a word to keep: no words returned, or all of  *)
(* them empty or whitespace.                                               *)
NoWordToKeep(segment) ==
    \/ ~Truthy(segment.words)
    \/ \A i \in 1..Len(segment.words.val) :
           strip(segment.words.val[i].word) = <<>>

(* What the run writes when the segments without a word to keep are left   *)
(* out before the split.                                                   *)
ExpectedSegments ==
    LET kept == SelectSeq(cli.engine, LAMBDA seg : ~NoWordToKeep(seg))
    IN  split_segments_by_max_words(
            ConvertSegments(transcribe(kept, cli.result.value.language, TRUE)),
            cli.max_words).value

ExpectedFile(fmt) ==
    LET t == Transcript(ExpectedSegments, cli.result.value.language)
    IN  Some(Utf8Encode(IF fmt = "json" THEN format_json(t)
                        ELSE format_srt(t)))

(* The run ended in a save_to_file that raised.                            *)
SaveRaised ==
    cli.exc.some /\ cli.exc.val.exc \in {"PermissionError", "OSError"}

(* C17: a run with word timestamps whose transcription has returned with a *)
(* segment without a word to keep, and whose files can be written, ends    *)
(* with exit code 0 and has written the split of the other segments to     *)
(* every file of --format.                                                 *)
C17_BlankSegmentSkipped ==
    (cli.pc = "exit" /\ cli.word_timestamps /\ cli.result.kind = "return"
       /\ ~SaveRaised
       /\ \E k \in 1..Len(cli.engine) : NoWordToKeep(cli.engine[k])) =>
        /\ cli.exit_code = Some(0)
        /\ \A i \in 1..Len(cli.format) :
               cli.outputs[get_output_paths(cli.input_file)[cli.format[i]]]
                   = ExpectedFile(cli.format[i])

====
